---------------------------- MODULE Spec2Model ----------------------------
(***************************************************************************)
(* A model of the SoulC compiler (src/src/compiler/main.cpp, lexer.hpp):   *)
(* the preprocessor, the lexer, the single-pass parser/emitter with its    *)
(* peephole constant folder, and the artifact writer.                      *)
(*                                                                         *)
(* Offsets (pos, bytecode offsets, jump targets) are 0-based as in the     *)
(* C++ source; TLA+ sequences are 1-based, so element i of a vector v is   *)
(* v[i + 1].  Strings are sequences of character codes.                    *)
(***************************************************************************)
EXTENDS Integers, Sequences, FiniteSets, TLC

VARIABLES
    build,               \* what this build does on undefined behaviour
    \* ---- Compiler object (main.cpp:126-134) and main()'s locals
    tokens,              \* Compiler::tokens
    pythonMode,          \* Compiler::pythonMode
    pos,                 \* Compiler::pos
    bytecode,            \* Compiler::bytecode
    symbolTable,         \* Compiler::symbolTable
    modulePrefix,        \* Compiler::modulePrefix
    cstate,              \* where compile()/main() stands
    artifact,            \* bytes written to the output file
    emitted,             \* history: every name handed to mangle and what was emitted
    \* ---- direct calls of emitBinaryOp
    instrs,              \* the instructions emitted into the buffer before the call
    opArg,               \* the TokenType passed to emitBinaryOp
    \* ---- Lexer object (lexer.hpp:130-135)
    source,              \* Lexer::source
    lexPython,           \* Lexer::pythonMode
    lpos,                \* Lexer::pos
    indentStack,         \* Lexer::indentStack
    ltokens,             \* the local vector tokens of tokenize()
    lstate,              \* where tokenize() stands
    indent,              \* the local indent of tokenize() (line 51)
    \* ---- preprocess (main.cpp:816-878)
    files,               \* the file system: path -> sequence of lines
    rootLines,           \* the lines of the root source
    lineIdx,             \* the getline loop of the outermost preprocess call
    globalIncludedFiles, \* the global vector of included paths
    result,              \* the local string result of the outermost call
    pstate,              \* where the outermost preprocess call stands
    frames,              \* the calls of preprocess in progress, the outermost first
    includePaths         \* main()'s includePaths (the -I options)

compVars == <<tokens, pythonMode, pos, bytecode, symbolTable, modulePrefix,
              cstate, artifact, emitted>>
foldVars == <<instrs, opArg>>
lexVars  == <<source, lexPython, lpos, indentStack, ltokens, lstate, indent>>
preVars  == <<files, rootLines, lineIdx, globalIncludedFiles, result, pstate, frames,
              includePaths>>
vars     == <<build, compVars, foldVars, lexVars, preVars>>

(***************************************************************************)
(* 32-bit two's complement int arithmetic.  Values are kept in             *)
(* MinInt..MaxInt and every intermediate result stays inside that range.   *)
(***************************************************************************)
MaxInt == 2147483647
MinInt == -MaxInt - 1

Lo16(a) == a % 65536
Hi16(a) == (a \div 65536) % 65536
FromHalves(hi, lo) == (IF hi >= 32768 THEN hi - 65536 ELSE hi) * 65536 + lo

\* byte k (0 = least significant) of the two's complement pattern of a
ByteOf(a, k) ==
    CASE k = 0 -> a % 256
      [] k = 1 -> (a \div 256) % 256
      [] k = 2 -> (a \div 65536) % 256
      [] k = 3 -> (a \div 16777216) % 256

\* (b3 << 24) | (b2 << 16) | (b1 << 8) | b0 as an int
ToInt(b3, b2, b1, b0) ==
    (IF b3 >= 128 THEN b3 - 256 ELSE b3) * 16777216 + b2 * 65536 + b1 * 256 + b0

AddW(a, b) ==
    LET lo == Lo16(a) + Lo16(b)
        hi == (Hi16(a) + Hi16(b) + lo \div 65536) % 65536
    IN  FromHalves(hi, lo % 65536)

SubW(a, b) ==
    LET lo == Lo16(a) - Lo16(b)
        hi == (Hi16(a) - Hi16(b) - (IF lo < 0 THEN 1 ELSE 0)) % 65536
    IN  FromHalves(hi, lo % 65536)

MulW(a, b) ==
    LET a0 == ByteOf(a, 0)  a1 == ByteOf(a, 1)  a2 == ByteOf(a, 2)  a3 == ByteOf(a, 3)
        b0 == ByteOf(b, 0)  b1 == ByteOf(b, 1)  b2 == ByteOf(b, 2)  b3 == ByteOf(b, 3)
        k0 == a0 * b0
        k1 == a0 * b1 + a1 * b0 + k0 \div 256
        k2 == a0 * b2 + a1 * b1 + a2 * b0 + k1 \div 256
        k3 == a0 * b3 + a1 * b2 + a2 * b1 + a3 * b0 + k2 \div 256
    IN  ToInt(k3 % 256, k2 % 256, k1 % 256, k0 % 256)

\* a / b and a % b of C++ (truncation toward zero) for b > 0
TruncDivPos(a, b) == IF a < 0 /\ a % b # 0 THEN (a \div b) + 1 ELSE a \div b
TruncModPos(a, b) == IF a < 0 /\ a % b # 0 THEN (a % b) - b ELSE a % b

\* a / b for b # 0 and (a, b) # (MinInt, -1)
DivT(a, b) ==
    IF b > 0 THEN TruncDivPos(a, b)
    ELSE IF b = MinInt THEN (IF a = MinInt THEN 1 ELSE 0)
    ELSE -TruncDivPos(a, -b)

\* a % b for b # 0 and (a, b) # (MinInt, -1)
ModT(a, b) ==
    IF b > 0 THEN TruncModPos(a, b)
    ELSE IF b = MinInt THEN (IF a = MinInt THEN 0 ELSE a)
    ELSE TruncModPos(a, -b)

RECURSIVE BitsOp(_, _, _, _)
\* the low n bits of x and y combined bit by bit; f is "and", "or" or "xor"
BitsOp(f, x, y, n) ==
    IF n = 0 THEN 0
    ELSE LET p == x % 2
             q == y % 2
             r == CASE f = "and" -> (IF p = 1 /\ q = 1 THEN 1 ELSE 0)
                    [] f = "or"  -> (IF p = 1 \/ q = 1 THEN 1 ELSE 0)
                    [] f = "xor" -> (IF p # q THEN 1 ELSE 0)
         IN  r + 2 * BitsOp(f, x \div 2, y \div 2, n - 1)

BitW(f, a, b) ==
    FromHalves(BitsOp(f, Hi16(a), Hi16(b), 16), BitsOp(f, Lo16(a), Lo16(b), 16))

RECURSIVE Pow2(_)
Pow2(n) == IF n = 0 THEN 1 ELSE 2 * Pow2(n - 1)

\* a << s and a >> s (arithmetic) for 0 <= s <= 31
ShlW(a, s) == IF s = 31 THEN MulW(a, MinInt) ELSE MulW(a, Pow2(s))
ShrW(a, s) == IF s = 31 THEN (IF a < 0 THEN -1 ELSE 0) ELSE a \div Pow2(s)


(***************************************************************************)
(* What the build does where the C++ source has undefined behaviour.       *)
(*   arith: "x86"  signed overflow wraps, a shift count is taken mod 32,   *)
(*                 INT_MIN / -1 and INT_MIN % -1 raise SIGFPE;             *)
(*          "arm"  as x86, but INT_MIN / -1 = INT_MIN, INT_MIN % -1 = 0;   *)
(*          "trap" a checked build: every undefined operation aborts.      *)
(*   oob:   a read of tokens[pos] with pos >= tokens.size():               *)
(*          "crash" the process dies; "eof" / "ident" the bytes read look  *)
(*          like an END_OF_FILE token / like an IDENTIFIER token.          *)
(***************************************************************************)
ArithBuilds == {"x86", "arm", "trap"}
OobBuilds   == {"crash", "eof", "ident"}

(***************************************************************************)
(* enum OpCode                                                             *)
(***************************************************************************)
HALT == 0
PUSH_INT == 1
PUSH_STR == 2
SYSCALL == 3
STORE == 4
LOAD == 5
ADD == 6
SUB == 7
MUL == 8
DIV == 9
JMP == 10
JZ == 11
CALL == 12
RET == 13
FOR_ITER == 14
TRY_ENTER == 15
TRY_EXIT == 16
RAISE == 17
MOD == 18
LSHIFT == 19
RSHIFT == 20
BIT_AND == 21
BIT_OR == 22
BIT_XOR == 23
EQ == 25
NE == 26
LT == 27
LE == 28
GT == 29
GE == 30
LOGIC_AND == 31
LOGIC_OR == 32
LOGIC_NOT == 33
ABS == 37
MIN == 38
MAX == 39
READ_ADDR == 226
LIST_NEW == 149
LIST_APPEND == 150
DICT_NEW == 146
DICT_SET == 147
RAW_READ_ADDR == 82
RAW_WRITE_ADDR == 83

(***************************************************************************)
(* The emit helpers (main.cpp:738-813).  st is the Compiler object: a      *)
(* record with the fields pos, bytecode, symbolTable, modulePrefix, plus   *)
(* status ("ok"; "crashed": the process died on undefined behaviour;       *)
(* "hung": it entered a loop that changes nothing) and emitted (history).  *)
(***************************************************************************)
At(v, i) == v[i + 1]

\* the first thing that stops the process is what stopped it
SetStatus(st, s) == IF st.status = "ok" THEN [st EXCEPT !.status = s] ELSE st

emitOp(st, op) == [st EXCEPT !.bytecode = Append(@, op)]

emitInt(st, val) ==
    [st EXCEPT !.bytecode = @ \o <<ByteOf(val, 3), ByteOf(val, 2), ByteOf(val, 1), ByteOf(val, 0)>>]

emitPushInt(st, val) == emitInt(emitOp(st, PUSH_INT), val)

emitJump(st, op, target) == emitInt(emitOp(st, op), target)

emitSyscall(st, id) == emitOp(emitOp(st, SYSCALL), id)

\* bytecode.push_back((uint8_t)s.length()); then every char of s
emitString(st, s) == [st EXCEPT !.bytecode = Append(@, Len(s) % 256) \o s]

\* a patch that writes the four bytes in the opposite order
\* a patchInt that writes nothing
patchInt_Nothing(st, p, val) == st

patchInt_LowByteFirst(st, p, val) ==
    LET outside == p < 0 \/ p + 3 >= Len(st.bytecode)
        s1 == [st EXCEPT !.bytecode =
                 [i \in 1..Len(@) |->
                     IF i = p + 1 THEN ByteOf(val, 0)
                     ELSE IF i = p + 2 THEN ByteOf(val, 1)
                     ELSE IF i = p + 3 THEN ByteOf(val, 2)
                     ELSE IF i = p + 4 THEN ByteOf(val, 3)
                     ELSE @[i]]]
    IN  IF outside /\ build.oob = "crash" THEN SetStatus(st, "crashed") ELSE s1

\* writes bytecode[pos..pos+3]; a write outside the vector is undefined: the
\* build dies there, or the byte lands behind the vector's size and is lost
patchInt(st, p, val) ==
    LET outside == p < 0 \/ p + 3 >= Len(st.bytecode)
        s1 == [st EXCEPT !.bytecode =
                 [i \in 1..Len(@) |->
                     IF i = p + 1 THEN ByteOf(val, 3)
                     ELSE IF i = p + 2 THEN ByteOf(val, 2)
                     ELSE IF i = p + 3 THEN ByteOf(val, 1)
                     ELSE IF i = p + 4 THEN ByteOf(val, 0)
                     ELSE @[i]]]
    IN  IF outside /\ build.oob = "crash" THEN SetStatus(st, "crashed") ELSE s1

(***************************************************************************)
(* emitBinaryOp (main.cpp:491-549)                                         *)
(***************************************************************************)
FoldTypes == {"PLUS", "MINUS", "STAR", "SLASH", "MOD", "LSHIFT", "RSHIFT",
              "AMPERSAND", "PIPE", "CARET"}

AddOverflows(a, b) == \/ a >= 0 /\ b >= 0 /\ AddW(a, b) < 0
                      \/ a < 0 /\ b < 0 /\ AddW(a, b) >= 0
SubOverflows(a, b) == \/ a >= 0 /\ b < 0 /\ SubW(a, b) < 0
                      \/ a < 0 /\ b >= 0 /\ SubW(a, b) >= 0
MulOverflows(a, b) ==
    /\ a # 0
    /\ b # 0
    /\ \/ a = -1 /\ b = MinInt
       \/ b = -1 /\ a = MinInt
       \/ /\ ~(a = -1 /\ b = MinInt) /\ ~(b = -1 /\ a = MinInt)
          /\ ~(MulW(a, b) = MinInt /\ b = -1)
          /\ DivT(MulW(a, b), b) # a

\* the switch of lines 505-517 for a foldable operator: [crash, val]
FoldResult(arith, type, v1, v2) ==
    LET ok(v)   == [crash |-> FALSE, val |-> v]
        ub(v)   == [crash |-> arith = "trap", val |-> v]
        divOvf  == v1 = MinInt /\ v2 = -1
        inRange == v2 >= 0 /\ v2 <= 31
    IN  CASE type = "PLUS"  -> IF AddOverflows(v1, v2) THEN ub(AddW(v1, v2)) ELSE ok(AddW(v1, v2))
          [] type = "MINUS" -> IF SubOverflows(v1, v2) THEN ub(SubW(v1, v2)) ELSE ok(SubW(v1, v2))
          [] type = "STAR"  -> IF MulOverflows(v1, v2) THEN ub(MulW(v1, v2)) ELSE ok(MulW(v1, v2))
          [] type = "SLASH" -> IF divOvf THEN [crash |-> arith # "arm", val |-> MinInt]
                               ELSE ok(DivT(v1, v2))
          [] type = "MOD"   -> IF divOvf THEN [crash |-> arith # "arm", val |-> 0]
                               ELSE ok(ModT(v1, v2))
          [] type = "LSHIFT" -> IF inRange THEN ok(ShlW(v1, v2)) ELSE ub(ShlW(v1, v2 % 32))
          [] type = "RSHIFT" -> IF inRange THEN ok(ShrW(v1, v2)) ELSE ub(ShrW(v1, v2 % 32))
          [] type = "AMPERSAND" -> ok(BitW("and", v1, v2))
          [] type = "PIPE"  -> ok(BitW("or", v1, v2))
          [] type = "CARET" -> ok(BitW("xor", v1, v2))

\* the switch of lines 528-548
BinaryOpcode(type) ==
    CASE type = "PLUS" -> <<ADD>>
      [] type = "MINUS" -> <<SUB>>
      [] type = "STAR" -> <<MUL>>
      [] type = "SLASH" -> <<DIV>>
      [] type = "EQUALS_EQUALS" -> <<EQ>>
      [] type = "NOT_EQ" -> <<NE>>
      [] type = "LT" -> <<LT>>
      [] type = "LE" -> <<LE>>
      [] type = "GT" -> <<GT>>
      [] type = "GE" -> <<GE>>
      [] type = "LAND" -> <<LOGIC_AND>>
      [] type = "LOR" -> <<LOGIC_OR>>
      [] type = "AMPERSAND" -> <<BIT_AND>>
      [] type = "PIPE" -> <<BIT_OR>>
      [] type = "CARET" -> <<BIT_XOR>>
      [] type = "MOD" -> <<MOD>>
      [] type = "LSHIFT" -> <<LSHIFT>>
      [] type = "RSHIFT" -> <<RSHIFT>>
      [] OTHER -> <<>>

\* line 509/510: if (v2 == 0) optimized = false, for / and % only
FoldSkipped(type, v2) == type \in {"SLASH", "MOD"} /\ v2 = 0

emitBinaryOp(st, type) ==
    LET bc == st.bytecode
        n  == Len(bc)
        twoPush == /\ n >= 10
                   /\ At(bc, n - 5) = PUSH_INT
                   /\ At(bc, n - 10) = PUSH_INT
        v2 == ToInt(At(bc, n - 4), At(bc, n - 3), At(bc, n - 2), At(bc, n - 1))
        v1 == ToInt(At(bc, n - 9), At(bc, n - 8), At(bc, n - 7), At(bc, n - 6))
        optimized == type \in FoldTypes /\ ~FoldSkipped(type, v2)
        r  == FoldResult(build.arith, type, v1, v2)
    IN  IF twoPush /\ optimized
        THEN IF r.crash THEN SetStatus(st, "crashed")
             ELSE emitPushInt([st EXCEPT !.bytecode = SubSeq(bc, 1, n - 10)], r.val)
        ELSE [st EXCEPT !.bytecode = @ \o BinaryOpcode(type)]

(***************************************************************************)
(* Idle values of each group of variables, for the specifications that do  *)
(* not run that part of the program.                                       *)
(***************************************************************************)
NoSymbols == [n \in {} |-> 0]

CompIdle ==
    /\ tokens = <<>>
    /\ pythonMode = FALSE
    /\ pos = 0
    /\ bytecode = <<>>
    /\ symbolTable = NoSymbols
    /\ modulePrefix = <<>>
    /\ cstate = "idle"
    /\ artifact = <<>>
    /\ emitted = <<>>

FoldIdle == instrs = <<>> /\ opArg = "NONE"

LexIdle ==
    /\ source = <<>>
    /\ lexPython = FALSE
    /\ lpos = 0
    /\ indentStack = <<0>>
    /\ ltokens = <<>>
    /\ lstate = "idle"
    /\ indent = 0

PreIdle ==
    /\ files = [p \in {} |-> <<>>]
    /\ rootLines = <<>>
    /\ lineIdx = 0
    /\ globalIncludedFiles = <<>>
    /\ result = <<>>
    /\ pstate = "idle"
    /\ frames = <<>>
    /\ includePaths = <<>>

\* the Compiler object as the record the parse operators work on
CompObj ==
    [pos |-> pos, bytecode |-> bytecode, symbolTable |-> symbolTable,
     modulePrefix |-> modulePrefix, status |-> "ok", emitted |-> emitted]

NewCompiler ==
    [pos |-> 0, bytecode |-> <<>>, symbolTable |-> NoSymbols,
     modulePrefix |-> <<>>, status |-> "ok", emitted |-> <<>>]

(***************************************************************************)
(* Direct calls of emitBinaryOp: the buffer holds the encoding of a short  *)
(* sequence of instructions, then emitBinaryOp(opArg) runs once.           *)
(***************************************************************************)
MaxInstrs == 3

NameOps == {STORE, LOAD, CALL}
JumpOps == {JMP, JZ, FOR_ITER, TRY_ENTER}

\* one instruction emitted the way the compiler emits it
EmitInstr(st, ins) ==
    IF ins.op = PUSH_INT THEN emitPushInt(st, ins.arg)
    ELSE IF ins.op \in NameOps THEN emitString(emitOp(st, ins.op), ins.arg)
    ELSE IF ins.op \in JumpOps THEN emitJump(st, ins.op, ins.arg)
    ELSE emitOp(st, ins.op)

RECURSIVE EmitAll(_, _)
EmitAll(st, is) == IF is = <<>> THEN st ELSE EmitAll(EmitInstr(st, Head(is)), Tail(is))

Encode(is) == EmitAll(NewCompiler, is).bytecode

FoldValues == {0, 1, 3, -1, MinInt}

FoldInstrs ==
    [op : {PUSH_INT}, arg : FoldValues]
        \cup {[op |-> STORE, arg |-> <<120>>], [op |-> LOAD, arg |-> <<121>>],
              [op |-> ADD, arg |-> 0]}

RECURSIVE SeqsUpTo(_, _)
\* all sequences over S of length at most n
SeqsUpTo(S, n) ==
    IF n = 0 THEN {<<>>}
    ELSE LET shorter == SeqsUpTo(S, n - 1)
         IN  shorter \cup {Append(q, x) : q \in {r \in shorter : Len(r) = n - 1}, x \in S}

BinaryTypes == {"LOR", "LAND", "PIPE", "CARET", "AMPERSAND", "EQUALS_EQUALS", "NOT_EQ",
                "LT", "LE", "GT", "GE", "LSHIFT", "RSHIFT", "PLUS", "MINUS",
                "STAR", "SLASH", "MOD"}

InitFold ==
    /\ build \in [arith : ArithBuilds, oob : {"crash"}]
    /\ instrs \in SeqsUpTo(FoldInstrs, MaxInstrs)
    /\ opArg \in BinaryTypes
    /\ tokens = <<>>
    /\ pythonMode = FALSE
    /\ pos = 0
    /\ bytecode = Encode(instrs)
    /\ symbolTable = NoSymbols
    /\ modulePrefix = <<>>
    /\ cstate = "fold_ready"
    /\ artifact = <<>>
    /\ emitted = <<>>
    /\ LexIdle
    /\ PreIdle

FoldCall ==
    /\ cstate = "fold_ready"
    /\ LET r == emitBinaryOp(CompObj, opArg)
       IN  /\ bytecode' = r.bytecode
           /\ cstate' = IF r.status = "ok" THEN "fold_done" ELSE r.status
    /\ UNCHANGED <<build, tokens, pythonMode, pos, symbolTable, modulePrefix, artifact,
                   emitted, foldVars, lexVars, preVars>>

NextFold == FoldCall

SpecFold == InitFold /\ [][NextFold]_vars

(***************************************************************************)
(* The operation of each foldable operator on small operands, in plain     *)
(* integer arithmetic (no wrap-around is involved for these operands).     *)
(***************************************************************************)
SmallLimit == 1000

IsSmall(v) == v >= -SmallLimit /\ v <= SmallLimit

PlainBit(a, i) == (a \div Pow2(i)) % 2

RECURSIVE PlainBits(_, _, _, _)
PlainBits(f, a, b, i) ==
    IF i < 0 THEN 0
    ELSE LET p == PlainBit(a, i)
             q == PlainBit(b, i)
             r == CASE f = "AMPERSAND" -> p * q
                    [] f = "PIPE" -> p + q - p * q
                    [] f = "CARET" -> (p + q) % 2
         IN  r * Pow2(i) + PlainBits(f, a, b, i - 1)

PlainDefined(type, a, b) ==
    /\ IsSmall(a)
    /\ IsSmall(b)
    /\ type \in {"SLASH", "MOD"} => b # 0
    /\ type \in {"LSHIFT", "RSHIFT"} => a >= 0 /\ b >= 0 /\ b <= 15
    /\ type \in {"AMPERSAND", "PIPE", "CARET"} => a >= 0 /\ b >= 0

PlainAbs(a) == IF a < 0 THEN -a ELSE a
PlainQuot(a, b) ==
    IF (a < 0) = (b < 0) THEN PlainAbs(a) \div PlainAbs(b) ELSE -(PlainAbs(a) \div PlainAbs(b))

PlainResult(type, a, b) ==
    CASE type = "PLUS" -> a + b
      [] type = "MINUS" -> a - b
      [] type = "STAR" -> a * b
      [] type = "SLASH" -> PlainQuot(a, b)
      [] type = "MOD" -> a - b * PlainQuot(a, b)
      [] type = "LSHIFT" -> a * Pow2(b)
      [] type = "RSHIFT" -> a \div Pow2(b)
      [] OTHER -> PlainBits(type, a, b, 15)

PushIntBytes(v) == <<PUSH_INT, ByteOf(v, 3), ByteOf(v, 2), ByteOf(v, 1), ByteOf(v, 0)>>

\* the last two instructions emitted before the call are PUSH_INT v1, PUSH_INT v2
TwoPushBefore ==
    /\ Len(instrs) >= 2
    /\ instrs[Len(instrs) - 1].op = PUSH_INT
    /\ instrs[Len(instrs)].op = PUSH_INT

FoldV1 == instrs[Len(instrs) - 1].arg
FoldV2 == instrs[Len(instrs)].arg
FoldHead == Encode(SubSeq(instrs, 1, Len(instrs) - 2))

\* C2: with PUSH_INT v1, PUSH_INT v2 last in the buffer and an arithmetic,
\* shift or bitwise operator, emitBinaryOp skips the fold exactly when the
\* operator is / or % and v2 = 0, and then appends DIV or MOD to the unchanged
\* buffer; in every other case the ten bytes become one PUSH_INT, holding the
\* result of the operation.
C2_FoldIffNonZeroDivisor ==
    (cstate # "fold_ready" /\ TwoPushBefore /\ opArg \in FoldTypes) =>
        /\ cstate = "fold_done"
        /\ IF opArg \in {"SLASH", "MOD"} /\ FoldV2 = 0
           THEN bytecode = Encode(instrs) \o <<(IF opArg = "SLASH" THEN DIV ELSE MOD)>>
           ELSE /\ Len(bytecode) = Len(FoldHead) + 5
                /\ SubSeq(bytecode, 1, Len(FoldHead)) = FoldHead
                /\ bytecode[Len(FoldHead) + 1] = PUSH_INT
                /\ PlainDefined(opArg, FoldV1, FoldV2) =>
                       bytecode = FoldHead \o PushIntBytes(PlainResult(opArg, FoldV1, FoldV2))

C2_WitnessSkip ==
    /\ cstate = "fold_done" /\ TwoPushBefore /\ opArg = "MOD" /\ FoldV2 = 0
    /\ bytecode = Encode(instrs) \o <<MOD>>

C2_WitnessFold ==
    /\ cstate = "fold_done" /\ TwoPushBefore /\ opArg = "SLASH"
    /\ FoldV1 = 3 /\ FoldV2 = -1
    /\ bytecode = FoldHead \o PushIntBytes(-3)

\* the call folded: the buffer is shorter than before the call
Folded == cstate = "fold_done" /\ Len(bytecode) < Len(Encode(instrs))

\* C17: emitBinaryOp folds only when the last two instructions emitted into
\* the buffer are both PUSH_INT instructions; a byte 0x01 that is an operand
\* byte of another instruction (the length byte of a LOAD or STORE name, a
\* value byte of an earlier PUSH_INT) never triggers a fold, so a fold removes
\* bytes of those two PUSH_INTs only.
C17_FoldOnlyAfterTwoPushInts == Folded => TwoPushBefore

\* PUSH_INT 1, PUSH_INT 3 and + have become PUSH_INT 4
C17_WitnessFoldOfTwoPushInts ==
    /\ Folded
    /\ TwoPushBefore /\ opArg = "PLUS" /\ FoldV1 = 1 /\ FoldV2 = 3
    /\ bytecode = FoldHead \o PushIntBytes(4)

(***************************************************************************)
(* Strings: the words the compiler compares token values with, as          *)
(* sequences of character codes.                                           *)
(***************************************************************************)
S_static == <<115, 116, 97, 116, 105, 99>>
S_extern == <<101, 120, 116, 101, 114, 110>>
S_public == <<112, 117, 98, 108, 105, 99>>
S_private == <<112, 114, 105, 118, 97, 116, 101>>
S_protected == <<112, 114, 111, 116, 101, 99, 116, 101, 100>>
S_async == <<97, 115, 121, 110, 99>>
S_readonly == <<114, 101, 97, 100, 111, 110, 108, 121>>
S_sealed == <<115, 101, 97, 108, 101, 100>>
S_typedef == <<116, 121, 112, 101, 100, 101, 102>>
S_alignas == <<97, 108, 105, 103, 110, 97, 115>>
S_alignof == <<97, 108, 105, 103, 110, 111, 102>>
S_asm == <<97, 115, 109>>
S_auto == <<97, 117, 116, 111>>
S_const == <<99, 111, 110, 115, 116>>
S_consteval == <<99, 111, 110, 115, 116, 101, 118, 97, 108>>
S_constexpr == <<99, 111, 110, 115, 116, 101, 120, 112, 114>>
S_constinit == <<99, 111, 110, 115, 116, 105, 110, 105, 116>>
S_explicit == <<101, 120, 112, 108, 105, 99, 105, 116>>
S_export == <<101, 120, 112, 111, 114, 116>>
S_inline == <<105, 110, 108, 105, 110, 101>>
S_mutable == <<109, 117, 116, 97, 98, 108, 101>>
S_register == <<114, 101, 103, 105, 115, 116, 101, 114>>
S_thread_local == <<116, 104, 114, 101, 97, 100, 95, 108, 111, 99, 97, 108>>
S_virtual == <<118, 105, 114, 116, 117, 97, 108>>
S_volatile == <<118, 111, 108, 97, 116, 105, 108, 101>>
S_template == <<116, 101, 109, 112, 108, 97, 116, 101>>
S_typename == <<116, 121, 112, 101, 110, 97, 109, 101>>
S_concept == <<99, 111, 110, 99, 101, 112, 116>>
S_requires == <<114, 101, 113, 117, 105, 114, 101, 115>>
S_noexcept == <<110, 111, 101, 120, 99, 101, 112, 116>>
S_friend == <<102, 114, 105, 101, 110, 100>>
S_restrict == <<114, 101, 115, 116, 114, 105, 99, 116>>
S_override == <<111, 118, 101, 114, 114, 105, 100, 101>>
S_final == <<102, 105, 110, 97, 108>>
S_operator == <<111, 112, 101, 114, 97, 116, 111, 114>>
S_this == <<116, 104, 105, 115>>
S_new == <<110, 101, 119>>
S_delete == <<100, 101, 108, 101, 116, 101>>
S_throw == <<116, 104, 114, 111, 119>>
S_co_await == <<99, 111, 95, 97, 119, 97, 105, 116>>
S_co_return == <<99, 111, 95, 114, 101, 116, 117, 114, 110>>
S_co_yield == <<99, 111, 95, 121, 105, 101, 108, 100>>
S_decltype == <<100, 101, 99, 108, 116, 121, 112, 101>>
S__Alignas == <<95, 65, 108, 105, 103, 110, 97, 115>>
S__Alignof == <<95, 65, 108, 105, 103, 110, 111, 102>>
S__Atomic == <<95, 65, 116, 111, 109, 105, 99>>
S__Bool == <<95, 66, 111, 111, 108>>
S__Complex == <<95, 67, 111, 109, 112, 108, 101, 120>>
S__Generic == <<95, 71, 101, 110, 101, 114, 105, 99>>
S__Imaginary == <<95, 73, 109, 97, 103, 105, 110, 97, 114, 121>>
S__Noreturn == <<95, 78, 111, 114, 101, 116, 117, 114, 110>>
S__Static_assert == <<95, 83, 116, 97, 116, 105, 99, 95, 97, 115, 115, 101, 114, 116>>
S__Thread_local == <<95, 84, 104, 114, 101, 97, 100, 95, 108, 111, 99, 97, 108>>
S_typeof == <<116, 121, 112, 101, 111, 102>>
S_typeof_unqual == <<116, 121, 112, 101, 111, 102, 95, 117, 110, 113, 117, 97, 108>>
S_unsigned == <<117, 110, 115, 105, 103, 110, 101, 100>>
S_signed == <<115, 105, 103, 110, 101, 100>>
S_long == <<108, 111, 110, 103>>
S_short == <<115, 104, 111, 114, 116>>
S_char == <<99, 104, 97, 114>>
S_char8_t == <<99, 104, 97, 114, 56, 95, 116>>
S_char16_t == <<99, 104, 97, 114, 49, 54, 95, 116>>
S_char32_t == <<99, 104, 97, 114, 51, 50, 95, 116>>
S_wchar_t == <<119, 99, 104, 97, 114, 95, 116>>
S_int == <<105, 110, 116>>
S_float == <<102, 108, 111, 97, 116>>
S_double == <<100, 111, 117, 98, 108, 101>>
S_void == <<118, 111, 105, 100>>
S_bool == <<98, 111, 111, 108>>
S_FILE == <<70, 73, 76, 69>>
S_size_t == <<115, 105, 122, 101, 95, 116>>
S_string == <<115, 116, 114, 105, 110, 103>>
S_Task == <<84, 97, 115, 107>>
S_var == <<118, 97, 114>>
S_time_t == <<116, 105, 109, 101, 95, 116>>
S_Point == <<80, 111, 105, 110, 116>>
S_IntFloat == <<73, 110, 116, 70, 108, 111, 97, 116>>
S_Color == <<67, 111, 108, 111, 114>>
S_set == <<115, 101, 116>>
S_dict == <<100, 105, 99, 116>>
S_deque == <<100, 101, 113, 117, 101>>
S_queue == <<113, 117, 101, 117, 101>>
S_heap == <<104, 101, 97, 112>>
S_tuple == <<116, 117, 112, 108, 101>>
S___module__ == <<95, 95, 109, 111, 100, 117, 108, 101, 95, 95>>
S___endmodule__ == <<95, 95, 101, 110, 100, 109, 111, 100, 117, 108, 101, 95, 95>>
S_static_assert == <<115, 116, 97, 116, 105, 99, 95, 97, 115, 115, 101, 114, 116>>
S_using == <<117, 115, 105, 110, 103>>
S_import == <<105, 109, 112, 111, 114, 116>>
S_module == <<109, 111, 100, 117, 108, 101>>
S_namespace == <<110, 97, 109, 101, 115, 112, 97, 99, 101>>
S_class == <<99, 108, 97, 115, 115>>
S_struct == <<115, 116, 114, 117, 99, 116>>
S_union == <<117, 110, 105, 111, 110>>
S_enum == <<101, 110, 117, 109>>
S_def == <<100, 101, 102>>
S_for == <<102, 111, 114>>
S_in == <<105, 110>>
S_try == <<116, 114, 121>>
S_except == <<101, 120, 99, 101, 112, 116>>
S_catch == <<99, 97, 116, 99, 104>>
S_raise == <<114, 97, 105, 115, 101>>
S_if == <<105, 102>>
S_elif == <<101, 108, 105, 102>>
S_else == <<101, 108, 115, 101>>
S_return == <<114, 101, 116, 117, 114, 110>>
S_yield == <<121, 105, 101, 108, 100>>
S_pass == <<112, 97, 115, 115>>
S_del == <<100, 101, 108>>
S_global == <<103, 108, 111, 98, 97, 108>>
S_nonlocal == <<110, 111, 110, 108, 111, 99, 97, 108>>
S_with == <<119, 105, 116, 104>>
S_assert == <<97, 115, 115, 101, 114, 116>>
S_break == <<98, 114, 101, 97, 107>>
S_continue == <<99, 111, 110, 116, 105, 110, 117, 101>>
S_switch == <<115, 119, 105, 116, 99, 104>>
S_case == <<99, 97, 115, 101>>
S_default == <<100, 101, 102, 97, 117, 108, 116>>
S_do == <<100, 111>>
S_lambda == <<108, 97, 109, 98, 100, 97>>
S_await == <<97, 119, 97, 105, 116>>
S_match == <<109, 97, 116, 99, 104>>
S_not == <<110, 111, 116>>
S_nullptr == <<110, 117, 108, 108, 112, 116, 114>>
S_sizeof == <<115, 105, 122, 101, 111, 102>>
S_true == <<116, 114, 117, 101>>
S_false == <<102, 97, 108, 115, 101>>
S_printf == <<112, 114, 105, 110, 116, 102>>
S_print == <<112, 114, 105, 110, 116>>
S_len == <<108, 101, 110>>
S_strlen == <<115, 116, 114, 108, 101, 110>>
S_malloc == <<109, 97, 108, 108, 111, 99>>
S_free == <<102, 114, 101, 101>>
S_exit == <<101, 120, 105, 116>>
S_system == <<115, 121, 115, 116, 101, 109>>
S_time_dot_sleep == <<116, 105, 109, 101, 46, 115, 108, 101, 101, 112>>
S_math_dot_sqrt == <<109, 97, 116, 104, 46, 115, 113, 114, 116>>
S_abs == <<97, 98, 115>>
S_min == <<109, 105, 110>>
S_MIN == <<77, 73, 78>>
S_max == <<109, 97, 120>>
S_MAX == <<77, 65, 88>>
S_fopen == <<102, 111, 112, 101, 110>>
S_fprintf == <<102, 112, 114, 105, 110, 116, 102>>
S_fclose == <<102, 99, 108, 111, 115, 101>>
S_time == <<116, 105, 109, 101>>
S_ctime == <<99, 116, 105, 109, 101>>
S_memcpy == <<109, 101, 109, 99, 112, 121>>
S_math_dot_pi == <<109, 97, 116, 104, 46, 112, 105>>
S_math_dot_e == <<109, 97, 116, 104, 46, 101>>
S_qmark == <<63>>
S_main == <<109, 97, 105, 110>>
S_Main == <<77, 97, 105, 110>>
S_wchar == <<119, 99, 104, 97, 114>>
S_16 == <<49, 54>>
S_32 == <<51, 50>>
S_goto == <<103, 111, 116, 111>>
S_while == <<119, 104, 105, 108, 101>>
S_x == <<120>>
S_y == <<121>>
S_a == <<97>>
S_b == <<98>>
S_f == <<102>>
S_g == <<103>>
S_A == <<65>>
S_B == <<66>>
S_M == <<77>>
S_math == <<109, 97, 116, 104>>
S_pi == <<112, 105>>
S_z == <<122>>
S_c == <<99>>

\* isDeclModifier's set (main.cpp:137-145)
DeclModifiers ==
    {S_static, S_extern, S_public, S_private, S_protected, S_async,
     S_readonly, S_sealed, S_typedef, S_alignas, S_alignof, S_asm,
     S_auto, S_const, S_consteval, S_constexpr, S_constinit, S_explicit,
     S_export, S_inline, S_mutable, S_register, S_thread_local, S_virtual,
     S_volatile, S_template, S_typename, S_concept, S_requires, S_noexcept,
     S_friend, S_restrict, S_override, S_final, S_operator, S_this,
     S_new, S_delete, S_throw, S_co_await, S_co_return, S_co_yield,
     S_decltype, S__Alignas, S__Alignof, S__Atomic, S__Bool, S__Complex,
     S__Generic, S__Imaginary, S__Noreturn, S__Static_assert, S__Thread_local, S_typeof,
     S_typeof_unqual}

\* the specifier words of parseTypeName (main.cpp:249)
TypeSpecifiers ==
    {S_unsigned, S_signed, S_long, S_short, S_char, S_char8_t,
     S_char16_t, S_char32_t, S_wchar_t, S_int, S_float, S_double,
     S_void, S_bool, S__Bool}

\* the keys of Compiler::types (main.cpp:77-109)
TypeNames ==
    {S_int, S_char, S_void, S_FILE, S_const, S_size_t,
     S_string, S_Task, S_var, S_bool, S__Bool, S_double,
     S_float, S_time_t, S_Point, S_IntFloat, S_Color, S_short,
     S_long, S_signed, S_unsigned, S_wchar_t, S_char8_t, S_char16_t,
     S_char32_t, S_set, S_dict, S_deque, S_queue, S_heap,
     S_tuple}

\* Type::size of each entry of Compiler::types
TypeSizeOf(n) ==
    CASE n \in {S_void, S_const, S_Task, S_var} -> 0
      [] n \in {S_char, S_bool, S__Bool, S_char8_t} -> 1
      [] n \in {S_short, S_wchar_t, S_char16_t} -> 2
      [] n \in {S_int, S_FILE, S_size_t, S_string, S_float, S_time_t, S_IntFloat, S_Color, S_long, S_signed, S_unsigned, S_char32_t, S_set, S_dict, S_deque, S_queue, S_heap, S_tuple} -> 4
      [] n \in {S_double, S_Point} -> 8

S_empty == <<>>
S_dot == <<46>>
S_semicolon == <<59>>
S_plus == <<43>>
S_lparen == <<40>>
S_rparen == <<41>>
S_lbrace == <<123>>
S_rbrace == <<125>>
S_lbracket == <<91>>
S_rbracket == <<93>>

\* the fields of the entries of Compiler::types that have any (main.cpp:91-92)
TypeFields(n) ==
    IF n = S_Point THEN <<S_x, S_y>>
    ELSE IF n = S_IntFloat THEN <<<<105>>, S_f>>
    ELSE <<>>

\* std::string::find(sub) != npos
Contains(s, sub) ==
    \E i \in 1..(Len(s) - Len(sub) + 1) : SubSeq(s, i, i + Len(sub) - 1) = sub

\* std::to_string of a non-negative int
RECURSIVE to_string(_)
to_string(i) == IF i < 10 THEN <<48 + i>> ELSE to_string(i \div 10) \o <<48 + (i % 10)>>

RECURSIVE StoiDigits(_, _, _)
\* the digits of s from index k on, accumulated into acc; -1 when the value
\* leaves the int range (std::out_of_range)
StoiDigits(s, k, acc) ==
    IF k > Len(s) \/ s[k] < 48 \/ s[k] > 57 THEN acc
    ELSE LET d == s[k] - 48
         IN  IF acc > (MaxInt - d) \div 10 THEN -1
             ELSE StoiDigits(s, k + 1, acc * 10 + d)

\* line 653: try { emitPushInt(std::stoi(t.value)); } catch(...) { emitPushInt(0); }
\* the value of an INTEGER token starts with a digit (lexer.hpp:104,137-143)
StoiOrZero(s) ==
    LET v == StoiDigits(s, 1, 0)
    IN  IF s = <<>> \/ s[1] < 48 \/ s[1] > 57 \/ v = -1 THEN 0 ELSE v

(***************************************************************************)
(* Tokens (lexer.hpp:33-37; the line number plays no part in compiling).   *)
(* A read of tokens[i] with i >= tokens.size() is undefined: the build     *)
(* either dies there or reads whatever lies behind the vector.             *)
(***************************************************************************)
NTok == Len(tokens)

GarbageToken ==
    IF build.oob = "ident" THEN [type |-> "IDENTIFIER", value |-> S_g]
    ELSE [type |-> "END_OF_FILE", value |-> S_empty]

TokAt(i) == IF i < NTok THEN tokens[i + 1] ELSE GarbageToken

Cur(st) == TokAt(st.pos)

\* pos < tokens.size()
InRange(st) == st.pos < NTok

Advance(st) == [st EXCEPT !.pos = @ + 1]

\* a read of tokens[pos] that no bounds check precedes
Unguarded(st) ==
    IF st.pos >= NTok /\ build.oob = "crash" THEN SetStatus(st, "crashed") ELSE st

\* if (pos < tokens.size() && tokens[pos].type == ty) pos++;
SkipIf(st, ty) == IF InRange(st) /\ Cur(st).type = ty THEN Advance(st) ELSE st

\* if (tokens[pos].type == ty) pos++;   (no bounds check)
SkipIfUnguarded(st, ty) ==
    LET s1 == Unguarded(st) IN IF Cur(s1).type = ty THEN Advance(s1) ELSE s1

RECURSIVE SkipUntil(_, _)
\* while (pos < tokens.size() && tokens[pos].type is none of tys) pos++;
SkipUntil(st, tys) ==
    IF InRange(st) /\ Cur(st).type \notin tys THEN SkipUntil(Advance(st), tys) ELSE st

\* if (pos < tokens.size()) pos++;
SkipOne(st) == IF InRange(st) THEN Advance(st) ELSE st

\* F of the value v: the locals of a function, bound one after the other to
\* what its statements compute
Bind(v, F(_)) == CHOOSE r \in {F(x) : x \in {v}} : TRUE

isDeclModifier(v) == v \in DeclModifiers

RECURSIVE SkipDepth(_, _)
\* while (pos < tokens.size() && depth > 0) { ... pos++; }   (lines 156-160)
SkipDepth(st, depth) ==
    IF InRange(st) /\ depth > 0
    THEN SkipDepth(Advance(st), IF Cur(st).type = "LPAREN" THEN depth + 1
                                ELSE IF Cur(st).type = "RPAREN" THEN depth - 1
                                ELSE depth)
    ELSE st

skipAlignasAlignof(st) ==
    IF ~InRange(st) \/ Cur(st).value \notin {S_alignas, S_alignof, S__Alignas, S__Alignof}
    THEN st
    ELSE LET s1 == Advance(st)
         IN  IF InRange(s1) /\ Cur(s1).type = "LPAREN" THEN SkipDepth(Advance(s1), 1) ELSE s1

skipStaticAssert(st) ==
    IF ~InRange(st) \/ Cur(st).value \notin {S_static_assert, S__Static_assert}
    THEN st
    ELSE LET s1 == Advance(st)
         IN  IF InRange(s1) /\ Cur(s1).type = "LPAREN"
             THEN SkipIf(SkipDepth(Advance(s1), 1), "SEMICOLON")
             ELSE s1

skipTypeof(st) ==
    IF ~InRange(st) \/ Cur(st).value \notin {S_typeof, S_typeof_unqual}
    THEN st
    ELSE LET s1 == Advance(st)
         IN  IF InRange(s1) /\ Cur(s1).type = "LPAREN" THEN SkipDepth(Advance(s1), 1) ELSE s1

mangle(st, name) == IF st.modulePrefix = <<>> THEN name ELSE st.modulePrefix \o name

\* emitOp(op); emitString(mangle(name));  the history keeps what was asked
\* for and what went into the buffer
emitMangled(st, op, name) ==
    LET m == mangle(st, name)
    IN  [emitString(emitOp(st, op), m) EXCEPT
            !.emitted = Append(@, [op |-> op, name |-> name, at |-> st.pos,
                                   prefix |-> st.modulePrefix, out |-> m])]

\* emitOp(op); emitString(out);  with the note that goes into the history
emitNoted(st, op, out, note) ==
    [emitString(emitOp(st, op), out) EXCEPT !.emitted = Append(@, note)]

RECURSIVE TypeNameLoop(_, _)
\* the while of lines 247-254
TypeNameLoop(st, typeName) ==
    IF InRange(st) /\ Cur(st).value \in TypeSpecifiers
    THEN TypeNameLoop(Advance(st),
                      (IF typeName = <<>> THEN <<>> ELSE typeName \o <<32>>) \o Cur(st).value)
    ELSE [st |-> st, val |-> typeName]

parseTypeName(st) ==
    LET r == TypeNameLoop(st, <<>>)
    IN  IF r.val = <<>> /\ InRange(r.st) /\ Cur(r.st).type \in {"KEYWORD", "IDENTIFIER"}
        THEN [st |-> Advance(r.st), val |-> Cur(r.st).value]
        ELSE r

getTypeSize(typeName) ==
    IF typeName \in TypeNames THEN TypeSizeOf(typeName)
    ELSE IF Contains(typeName, S_double) THEN 8
    ELSE IF Contains(typeName, S_float) THEN 4
    ELSE IF Contains(typeName, S_short) THEN 2
    ELSE IF Contains(typeName, S_long) THEN 4
    ELSE IF Contains(typeName, S_char) /\ Contains(typeName, S_32) THEN 4
    ELSE IF Contains(typeName, S_char) /\ Contains(typeName, S_16) THEN 2
    ELSE IF Contains(typeName, S_char) THEN 1
    ELSE IF Contains(typeName, S_wchar) THEN 2
    ELSE 4

\* while (pos < size && (type == STAR || value == "?")) pos++;   (lines 278, 289)
RECURSIVE SkipDecor(_)
SkipDecor(st) ==
    IF InRange(st) /\ (Cur(st).type = "STAR" \/ Cur(st).value = S_qmark)
    THEN SkipDecor(Advance(st))
    ELSE st

(***************************************************************************)
(* The parser/emitter (main.cpp:199-725).  Every parse function takes the  *)
(* Compiler object and returns it as the function leaves it.  A function   *)
(* called on an object whose process has stopped does nothing.             *)
(***************************************************************************)
RECURSIVE parseTopLevel(_), parseDeclaration(_), parseBlock(_), parseStatement(_),
          parseExpression(_, _), parsePrimary(_), Invoke(_, _, _)
RECURSIVE ModifierLoop(_), TopLevelLoop(_, _), ParamLoop(_, _), StoreArgs(_, _, _),
          InitLoop(_, _, _, _, _), ElifLoop(_, _), ExprLoop(_, _, _), FStringLoop(_, _),
          ListLoop(_), DictLoop(_), ArgLoop(_, _), PostfixLoop(_, _)

\* the while of lines 214-220
ModifierLoop(st) ==
    IF InRange(st) /\ isDeclModifier(Cur(st).value)
    THEN LET v == Cur(st).value
         IN  IF v \in {S_alignas, S_alignof, S__Alignas, S__Alignof}
             THEN ModifierLoop(skipAlignasAlignof(st))
             ELSE IF v \in {S_static_assert, S__Static_assert}
             THEN ModifierLoop(skipStaticAssert(st))
             ELSE IF v \in {S_typeof, S_typeof_unqual}
             THEN ModifierLoop(skipTypeof(st))
             ELSE ModifierLoop(Advance(st))
    ELSE st

\* while (pos < tokens.size() && tokens[pos].type != end) parseTopLevel();
\* (lines 233, 343).  A call that leaves pos where it was has changed
\* nothing, so the loop never ends.
TopLevelLoop(st, end) ==
    IF st.status = "ok" /\ InRange(st) /\ Cur(st).type # end
    THEN Bind(Invoke("parseTopLevel", st, 0), LAMBDA s1 :
            IF s1.status = "ok" /\ s1.pos = st.pos THEN SetStatus(s1, "hung")
            ELSE TopLevelLoop(s1, end))
    ELSE st

parseTopLevel(st) ==
    IF st.status # "ok" \/ ~InRange(st) THEN st
    ELSE IF Cur(st).value = S___module__
    THEN Bind(Advance(st), LAMBDA s1 :
            IF InRange(s1)
            THEN [Advance(s1) EXCEPT !.modulePrefix = Cur(s1).value \o S_dot]
            ELSE s1)
    ELSE IF Cur(st).value = S___endmodule__
    THEN SkipIf([Advance(st) EXCEPT !.modulePrefix = <<>>], "SEMICOLON")
    ELSE Bind(ModifierLoop(st), LAMBDA s1 :
            LET t  == Cur(s1)
                named == t.type \in {"KEYWORD", "IDENTIFIER"}
            IN  IF ~InRange(s1) THEN s1
                ELSE IF named /\ t.value \in {S_using, S_import, S_module, S_export}
                THEN SkipOne(SkipUntil(Advance(s1), {"SEMICOLON"}))
                ELSE IF named /\ t.value \in {S_namespace, S_class, S_struct, S_union, S_enum}
                THEN Bind(SkipIf(Advance(s1), "IDENTIFIER"), LAMBDA s2 :
                        IF InRange(s2) /\ Cur(s2).type = "LBRACE"
                        THEN SkipIf(SkipOne(TopLevelLoop(Advance(s2), "RBRACE")), "SEMICOLON")
                        ELSE s2)
                ELSE IF named /\ (t.value = S_def \/ t.value \in TypeNames)
                THEN Invoke("parseDeclaration", s1, 0)
                ELSE Invoke("parseStatement", s1, 0))

\* the while of lines 287-294: [st, val]; an iteration that consumes no
\* token repeats for ever
ParamLoop(st, args) ==
    IF st.status = "ok" /\ InRange(st) /\ Cur(st).type # "RPAREN"
    THEN Bind(SkipDecor(parseTypeName(st).st), LAMBDA s1 :
            LET isId == InRange(s1) /\ Cur(s1).type = "IDENTIFIER"
            IN  Bind(SkipIf(IF isId THEN Advance(s1) ELSE s1, "COMMA"), LAMBDA s3 :
                    IF s3.pos = st.pos THEN [st |-> SetStatus(s3, "hung"), val |-> args]
                    ELSE ParamLoop(s3, IF isId THEN Append(args, Cur(s1).value) ELSE args)))
    ELSE [st |-> st, val |-> args]

\* for (int i = args.size() - 1; i >= 0; i--) { emitOp(STORE); emitString(mangle(args[i])); }
StoreArgs(st, args, i) ==
    IF i < 1 THEN st ELSE StoreArgs(emitMangled(st, STORE, args[i]), args, i - 1)

\* the while of lines 323-330; sym is mangle(name), taken at line 282
InitLoop(st, typeName, name, sym, i) ==
    IF st.status = "ok" /\ InRange(st) /\ Cur(st).type # "RBRACE"
    THEN LET fields == TypeFields(typeName)
             suffix == IF typeName \in TypeNames /\ i < Len(fields)
                       THEN S_dot \o fields[i + 1]
                       ELSE S_lbracket \o to_string(i) \o S_rbracket
         IN  Bind(Invoke("parseExpression", st, 0), LAMBDA s1 :
                InitLoop(
                    SkipIfUnguarded(
                        emitNoted(s1, STORE, sym \o suffix,
                                  [op |-> STORE, name |-> name \o suffix, at |-> s1.pos,
                                   prefix |-> s1.modulePrefix, out |-> sym \o suffix]),
                        "COMMA"),
                    typeName, name, sym, i + 1))
    ELSE st

parseDeclaration(st) ==
    IF st.status # "ok" THEN st
    ELSE
    Bind(parseTypeName(st), LAMBDA tn :
    Bind(SkipDecor(tn.st), LAMBDA s1 :
    Bind(SkipOne(s1), LAMBDA s2 :
        LET typeName == tn.val
            name == IF InRange(s1) THEN Cur(s1).value ELSE S_empty
            sym == mangle(s2, name)
            note == [op |-> STORE, name |-> name, at |-> s2.pos,
                     prefix |-> s2.modulePrefix, out |-> sym]
        IN  IF typeName = <<>> THEN tn.st
            ELSE IF name = <<>> THEN s2
            ELSE IF InRange(s2) /\ Cur(s2).type = "LPAREN"
            THEN \* Function (lines 285-313)
                 Bind(ParamLoop(Advance(s2), <<>>), LAMBDA pr :
                 Bind(SkipIf(SkipOne(pr.st), "COLON"), LAMBDA f1 :
                 Bind(emitNoted(emitPushInt(f1, 0), STORE, sym, note), LAMBDA f2 :
                 Bind(emitJump(f2, JMP, 0), LAMBDA f3 :
                     LET startPlace == Len(f1.bytecode)
                         skipJump == Len(f2.bytecode)
                         bodyStart == Len(f3.bytecode)
                         f4 == patchInt([f3 EXCEPT !.symbolTable = (sym :> bodyStart) @@ @],
                                        startPlace + 1, bodyStart)
                     IN  Bind(emitOp(Invoke("parseBlock", StoreArgs(f4, pr.val, Len(pr.val)), 0),
                                     RET), LAMBDA f5 :
                            IF pr.st.status # "ok" THEN pr.st
                            ELSE IF f5.status # "ok" THEN f5
                            ELSE patchInt(f5, skipJump + 1, Len(f5.bytecode))) ))))
            ELSE \* Variable (lines 316-336)
                 Bind(IF InRange(s2) /\ Cur(s2).type = "LBRACKET"
                      THEN SkipIf(Advance(s2), "RBRACKET")
                      ELSE s2, LAMBDA v1 :
                     IF InRange(v1) /\ Cur(v1).type = "EQUALS"
                     THEN Bind(Unguarded(Advance(v1)), LAMBDA v2 :
                             SkipIf(IF Cur(v2).type = "LBRACE"
                                    THEN SkipOne(InitLoop(Advance(v2), typeName, name, sym, 0))
                                    ELSE emitNoted(Invoke("parseExpression", v2, 0), STORE,
                                                   sym, note),
                                    "SEMICOLON"))
                     ELSE SkipIf(v1, "SEMICOLON")) )))

parseBlock(st) ==
    IF st.status # "ok" THEN st
    ELSE IF InRange(st) /\ Cur(st).type \in {"INDENT", "LBRACE"}
    THEN SkipOne(TopLevelLoop(Advance(st),
                              IF Cur(st).type = "INDENT" THEN "DEDENT" ELSE "RBRACE"))
    ELSE Invoke("parseTopLevel", st, 0)

\* the while of lines 394-410, then line 411: patch is the local of that name
ElifLoop(st, patch) ==
    IF st.status = "ok" /\ InRange(st) /\ Cur(st).value \in {S_elif, S_else}
    THEN IF Cur(st).value = S_elif
         THEN Bind(Advance(st), LAMBDA e1 :
              LET skipElif == Len(e1.bytecode)
                  e2 == patchInt(emitJump(e1, JMP, 0), patch, skipElif + 5)
                  e3 == SkipIfUnguarded(e2, "LPAREN")
                  e4 == SkipIfUnguarded(Invoke("parseExpression", e3, 0), "RPAREN")
              IN  Bind(emitOp(e4, JZ), LAMBDA e5 :
                  Bind(Invoke("parseBlock", emitInt(e5, 0), 0), LAMBDA e6 :
                      ElifLoop(patchInt(e6, skipElif + 1, Len(e6.bytecode)),
                               Len(e5.bytecode)))))
         ELSE Bind(Advance(st), LAMBDA e1 :
              LET skipElse == Len(e1.bytecode)
                  e2 == patchInt(emitJump(e1, JMP, 0), patch, skipElse + 5)
              IN  Bind(Invoke("parseBlock", e2, 0), LAMBDA e3 :
                  Bind(patchInt(e3, skipElse + 1, Len(e3.bytecode)), LAMBDA e4 :
                      patchInt(e4, patch, Len(e4.bytecode)))))
    ELSE patchInt(st, patch, Len(st.bytecode))

parseStatement(st) ==
    LET t  == Cur(st)
        s0 == Advance(st)
    IN  IF st.status # "ok" \/ ~InRange(st) THEN st
        ELSE IF t.value = S_for
        THEN Bind(Unguarded(SkipIfUnguarded(s0, "LPAREN")), LAMBDA a2 :
             Bind(Unguarded(Advance(a2)), LAMBDA a3 :
             LET var == Cur(a2).value
                 a4 == IF Cur(a3).value = S_in THEN Advance(a3) ELSE a3
             IN  Bind(SkipIfUnguarded(Invoke("parseExpression", a4, 0), "RPAREN"), LAMBDA a5 :
                 Bind(emitOp(a5, FOR_ITER), LAMBDA a6 :
                 LET loopStart == Len(a5.bytecode)
                     patchFor == Len(a6.bytecode)
                     a7 == emitMangled(emitInt(a6, 0), STORE, var)
                 IN  Bind(emitJump(Invoke("parseBlock", a7, 0), JMP, loopStart), LAMBDA a8 :
                        patchInt(a8, patchFor, Len(a8.bytecode)))))))
        ELSE IF t.value = S_try
        THEN Bind(emitOp(s0, TRY_ENTER), LAMBDA b1 :
             Bind(emitOp(Invoke("parseBlock", emitInt(b1, 0), 0), TRY_EXIT), LAMBDA b2 :
             Bind(emitJump(b2, JMP, 0), LAMBDA b3 :
             Bind(patchInt(b3, Len(b1.bytecode), Len(b3.bytecode)), LAMBDA b4 :
             Bind(Advance(b4), LAMBDA b5 :
             LET patchTry == Len(b1.bytecode)
                 skipCatch == Len(b2.bytecode)
                 b6 == IF InRange(b5) /\ Cur(b5).type = "LPAREN"
                       THEN Advance(SkipUntil(Advance(b5), {"RPAREN"}))
                       ELSE b5
             IN  Bind(IF InRange(b4) /\ Cur(b4).value \in {S_except, S_catch}
                      THEN Invoke("parseBlock", SkipIf(b6, "COLON"), 0)
                      ELSE b4, LAMBDA b7 :
                     patchInt(b7, skipCatch + 1, Len(b7.bytecode))))))))
        ELSE IF t.value \in {S_raise, S_throw}
        THEN SkipIf(emitOp(Invoke("parseExpression", s0, 0), RAISE), "SEMICOLON")
        ELSE IF t.value = S_if
        THEN LET c1 == SkipIfUnguarded(s0, "LPAREN")
                 c2 == SkipIfUnguarded(Invoke("parseExpression", c1, 0), "RPAREN")
             IN  Bind(emitOp(c2, JZ), LAMBDA c3 :
                    ElifLoop(Invoke("parseBlock", emitInt(c3, 0), 0), Len(c3.bytecode)))
        ELSE IF t.value = S_return
        THEN SkipIf(emitOp(Invoke("parseExpression", s0, 0), RET), "SEMICOLON")
        ELSE IF t.value = S_yield
        THEN SkipIf(Invoke("parseExpression", s0, 0), "SEMICOLON")
        ELSE IF t.value = S_pass
        THEN SkipIf(s0, "SEMICOLON")
        ELSE IF t.value \in {S_del, S_global, S_nonlocal}
        THEN SkipOne(SkipUntil(s0, {"SEMICOLON"}))
        ELSE IF t.value = S_with
        THEN Invoke("parseBlock", SkipOne(SkipUntil(s0, {"COLON"})), 0)
        ELSE IF t.value = S_assert
        THEN Bind(emitOp(Invoke("parseExpression", s0, 0), JZ), LAMBDA g1 :
             Bind(emitInt(g1, 0), LAMBDA g2 :
             Bind(IF InRange(g2) /\ Cur(g2).type = "COMMA"
                  THEN Invoke("parseExpression", Advance(g2), 0)
                  ELSE g2, LAMBDA g3 :
                 LET patchAssert == Len(g1.bytecode)
                     abortAddr == Len(g3.bytecode)
                     g4 == emitSyscall(emitPushInt(g3, 1), 224)
                 IN  SkipIf(patchInt(g4, patchAssert, abortAddr), "SEMICOLON"))))
        ELSE IF t.value \in {S_break, S_continue, S_switch, S_case, S_default, S_do,
                             S_lambda, S_async, S_await, S_match}
        THEN Bind(SkipUntil(s0, {"SEMICOLON", "COLON"}), LAMBDA h1 :
                IF InRange(h1) /\ Cur(h1).type = "COLON"
                THEN Invoke("parseBlock", Advance(h1), 0)
                ELSE SkipOne(h1))
        ELSE IF t.value \in TypeNames
        THEN Invoke("parseDeclaration", st, 0)
        ELSE SkipIf(Invoke("parseExpression", st, 0), "SEMICOLON")

getPrecedence(type) ==
    CASE type = "LOR" -> 1
      [] type = "LAND" -> 2
      [] type = "PIPE" -> 3
      [] type = "CARET" -> 4
      [] type = "AMPERSAND" -> 5
      [] type \in {"EQUALS_EQUALS", "NOT_EQ"} -> 6
      [] type \in {"LT", "LE", "GT", "GE"} -> 7
      [] type \in {"LSHIFT", "RSHIFT"} -> 8
      [] type \in {"PLUS", "MINUS"} -> 9
      [] type \in {"STAR", "SLASH", "MOD"} -> 10
      [] type = "COLON_EQUALS" -> 0
      [] OTHER -> -1

\* the while of lines 452-470
ExprLoop(st, leftName, minPrecedence) ==
    IF st.status = "ok" /\ InRange(st)
    THEN LET op == Cur(st)
             prec == getPrecedence(op.type)
             s1 == Advance(st)
         IN  IF prec < minPrecedence \/ prec = -1 THEN st
             ELSE IF op.type = "COLON_EQUALS"
             THEN IF leftName # <<>>
                  THEN LET w1 == Invoke("parseExpression", s1, prec + 1)
                           w2 == emitMangled(emitMangled(w1, STORE, leftName), LOAD, leftName)
                       IN  Bind(w2, LAMBDA s2 : ExprLoop(s2, S_empty, minPrecedence))
                  ELSE Bind(s1, LAMBDA s2 : ExprLoop(s2, leftName, minPrecedence))
             ELSE Bind(emitBinaryOp(Invoke("parseExpression", s1, prec + 1), op.type),
                       LAMBDA s2 : ExprLoop(s2, S_empty, minPrecedence))
    ELSE st

\* leftName = parsePrimary(): every return of parsePrimary returns ""
\* (lines 552, 571, 577, 588, 601, 608, 613, 618, 631, 639, 644, 646, 647, 724)
parseExpression(st, minPrecedence) ==
    IF st.status # "ok" THEN st
    ELSE Bind(Invoke("parsePrimary", st, 0), LAMBDA s1 : ExprLoop(s1, S_empty, minPrecedence))

\* the first i <= k < Len(s) with s[k] a backslash (it has a character after
\* it); 0 when there is none
NextEscape(s, i) ==
    LET c == {k \in i..(Len(s) - 1) : s[k] = 92}
    IN  IF c = {} THEN 0 ELSE CHOOSE k \in c : \A m \in c : k <= m

\* std::string processed of emitStringLiteral (lines 745-758), from index i
\* on: the characters up to the next escape are copied one by one
RECURSIVE ProcessEscapes(_, _)
ProcessEscapes(s, i) ==
    LET j == NextEscape(s, i)
        next == s[j + 1]
    IN  IF j = 0 THEN SubSeq(s, i, Len(s))
        ELSE SubSeq(s, i, j - 1) \o
             (IF next = 110 THEN <<10>> \o ProcessEscapes(s, j + 2)
              ELSE IF next = 116 THEN <<9>> \o ProcessEscapes(s, j + 2)
              ELSE IF next = 114 THEN <<13>> \o ProcessEscapes(s, j + 2)
              ELSE IF next = 92 THEN <<92>> \o ProcessEscapes(s, j + 2)
              ELSE IF next = 34 THEN <<34>> \o ProcessEscapes(s, j + 2)
              ELSE <<92>> \o ProcessEscapes(s, j + 1))

emitStringLiteral(st, s) == emitString(st, ProcessEscapes(s, 1))

\* emitOp(0x52); bytecode.push_back(4);  and the same with 0x53, READ_ADDR
emitAddrOp(st, op) == emitOp(emitOp(st, op), 4)

\* the while of lines 559-570
FStringLoop(st, first) ==
    IF st.status = "ok" /\ InRange(st) /\ Cur(st).type \in {"FSTRING_PART", "LBRACE_EXP"}
    THEN LET ft == Cur(st)
             s1 == Advance(st)
         IN  Bind(IF ft.type = "FSTRING_PART"
                  THEN emitString(emitOp(s1, PUSH_STR), ft.value)
                  ELSE emitSyscall(
                         emitPushInt(SkipIf(Invoke("parseExpression", s1, 0), "RBRACE_EXP"), 1),
                         239), LAMBDA s2 :
                 FStringLoop(IF first THEN s2 ELSE emitOp(s2, ADD), FALSE))
    ELSE st

\* the while of lines 582-586
ListLoop(st) ==
    IF st.status = "ok" /\ InRange(st) /\ Cur(st).type # "RBRACKET"
    THEN Bind(SkipIf(emitOp(Invoke("parseExpression", st, 0), LIST_APPEND), "COMMA"),
              LAMBDA s1 : ListLoop(s1))
    ELSE st

\* the while of lines 593-599
DictLoop(st) ==
    IF st.status = "ok" /\ InRange(st) /\ Cur(st).type # "RBRACE"
    THEN Bind(SkipIf(Invoke("parseExpression", st, 0), "COLON"), LAMBDA k :
         Bind(SkipIf(emitOp(Invoke("parseExpression", k, 0), DICT_SET), "COMMA"),
              LAMBDA s1 : DictLoop(s1)))
    ELSE st

\* the while of lines 666-669: [st, val] with val the local count
ArgLoop(st, count) ==
    IF st.status = "ok" /\ InRange(st) /\ Cur(st).type # "RPAREN"
    THEN Bind(SkipIfUnguarded(Invoke("parseExpression", st, 0), "COMMA"),
              LAMBDA s1 : ArgLoop(s1, count + 1))
    ELSE [st |-> st, val |-> count]

\* the chain of lines 672-697
EmitCall(st, name, count) ==
    LET sys(id) == emitSyscall(emitPushInt(st, count), id)
    IN  CASE name \in {S_printf, S_print} -> sys(96)
          [] name \in {S_len, S_strlen} -> sys(99)
          [] name = S_malloc -> sys(208)
          [] name = S_free -> sys(211)
          [] name = S_exit -> sys(192)
          [] name = S_system -> sys(193)
          [] name = S_time_dot_sleep -> sys(194)
          [] name = S_math_dot_sqrt -> sys(176)
          [] name = S_abs -> emitOp(st, ABS)
          [] name \in {S_min, S_MIN} -> emitOp(st, MIN)
          [] name \in {S_max, S_MAX} -> emitOp(st, MAX)
          [] name = S_fopen -> sys(112)
          [] name = S_fprintf -> sys(113)
          [] name = S_fclose -> sys(114)
          [] name = S_time -> sys(128)
          [] name = S_ctime -> sys(129)
          [] name = S_memcpy -> sys(213)
          [] OTHER -> IF name # <<>> THEN emitMangled(st, CALL, name)
                      ELSE emitString(emitOp(st, CALL), S_empty)

\* the while of lines 656-717, then lines 719-723: name is the local of that name
PostfixLoop(st, name) ==
    LET ty == Cur(st).type
    IN  IF st.status # "ok" THEN st
        ELSE IF InRange(st) /\ ty \in {"DOT", "ARROW"}
        THEN Bind(Unguarded(Advance(st)), LAMBDA s1 :
             LET field == Cur(s1).value
                 s2 == Advance(s1)
             IN  IF name # <<>> THEN PostfixLoop(s2, name \o S_dot \o field)
                 ELSE PostfixLoop(
                        emitAddrOp(emitString(emitOp(s2, PUSH_STR), field), RAW_READ_ADDR),
                        name))
        ELSE IF InRange(st) /\ ty = "LPAREN"
        THEN Bind(ArgLoop(Advance(st), 0), LAMBDA a :
                PostfixLoop(EmitCall(SkipOne(a.st), name, a.val), S_empty))
        ELSE IF InRange(st) /\ ty = "LBRACKET"
        THEN LET s1 == IF name # <<>> THEN emitMangled(st, LOAD, name) ELSE st
             IN  Bind(SkipIf(Invoke("parseExpression", Advance(s1), 0), "RBRACKET"),
                      LAMBDA s2 :
                     PostfixLoop(
                        IF InRange(s2) /\ Cur(s2).type = "EQUALS"
                        THEN emitAddrOp(Invoke("parseExpression", Advance(s2), 0),
                                        RAW_WRITE_ADDR)
                        ELSE emitAddrOp(s2, RAW_READ_ADDR),
                        S_empty))
        ELSE IF InRange(st) /\ name # <<>> /\ ty = "EQUALS"
        THEN PostfixLoop(emitMangled(Invoke("parseExpression", Advance(st), 0), STORE, name),
                         S_empty)
        ELSE IF name = <<>> THEN st
        ELSE IF name = S_math_dot_pi THEN emitSyscall(st, 178)
        ELSE IF name = S_math_dot_e THEN emitSyscall(st, 179)
        ELSE emitMangled(st, LOAD, name)

parsePrimary(st) ==
    LET t  == Cur(st)
        s0 == Advance(st)
    IN  IF st.status # "ok" \/ ~InRange(st) THEN st
        ELSE IF t.type \in {"FSTRING_PART", "LBRACE_EXP"} THEN FStringLoop(st, TRUE)
        ELSE IF t.type = "LPAREN" THEN SkipIf(Invoke("parseExpression", s0, 0), "RPAREN")
        ELSE IF t.type = "LBRACKET" THEN SkipOne(ListLoop(emitOp(s0, LIST_NEW)))
        ELSE IF t.type = "LBRACE" /\ ~pythonMode THEN SkipOne(DictLoop(emitOp(s0, DICT_NEW)))
        ELSE IF t.type = "MINUS"
        THEN emitOp(emitPushInt(Invoke("parsePrimary", s0, 0), -1), MUL)
        ELSE IF t.type = "NOT" \/ (t.type = "KEYWORD" /\ t.value = S_not)
        THEN emitOp(Invoke("parsePrimary", s0, 0), LOGIC_NOT)
        ELSE IF t.type = "KEYWORD" /\ t.value = S_nullptr THEN emitPushInt(s0, 0)
        ELSE IF t.type = "KEYWORD" /\ t.value = S_sizeof
        THEN IF InRange(s0) /\ Cur(s0).type = "LPAREN"
             THEN Bind(parseTypeName(Advance(s0)), LAMBDA tn :
                     emitPushInt(SkipIf(tn.st, "RPAREN"), getTypeSize(tn.val)))
             ELSE Bind(parseTypeName(s0), LAMBDA tn :
                     emitPushInt(tn.st, getTypeSize(tn.val)))
        ELSE IF t.type = "STAR"
        THEN emitAddrOp(emitPushInt(Invoke("parseExpression", s0, 0), 0), READ_ADDR)
        ELSE IF t.type = "AMPERSAND" THEN Invoke("parseExpression", s0, 0)
        ELSE IF t.type = "KEYWORD" /\ t.value = S_true THEN emitPushInt(s0, 1)
        ELSE IF t.type = "KEYWORD" /\ t.value = S_false THEN emitPushInt(s0, 0)
        ELSE IF t.type = "IDENTIFIER" THEN PostfixLoop(s0, t.value)
        ELSE IF t.type = "INTEGER" THEN PostfixLoop(emitPushInt(s0, StoiOrZero(t.value)), S_empty)
        ELSE IF t.type = "STRING"
        THEN PostfixLoop(emitStringLiteral(emitOp(s0, PUSH_STR), t.value), S_empty)
        ELSE PostfixLoop(s0, S_empty)

(***************************************************************************)
(* compile() (main.cpp:112-124) and the end of main() (main.cpp:919-927)   *)
\* a call of a parse function on the object st: the parse functions reach
\* each other through this one place; a is the argument minPrecedence of
\* parseExpression and plays no part in the others
Invoke(f, st, a) ==
    Bind(st, LAMBDA s :
        CASE f = "parseTopLevel" -> parseTopLevel(s)
          [] f = "parseDeclaration" -> parseDeclaration(s)
          [] f = "parseBlock" -> parseBlock(s)
          [] f = "parseStatement" -> parseStatement(s)
          [] f = "parseExpression" -> parseExpression(s, a)
          [] f = "parsePrimary" -> parsePrimary(s))

(***************************************************************************)
S_CASM == <<67, 65, 83, 77>>

\* the condition of the while of line 114
CompileLoopCond(st) == InRange(st) /\ Cur(st).type # "END_OF_FILE"

\* an entry point that prefers Main to main
EntryPoint_MainFirst(st) ==
    IF S_Main \in DOMAIN st.symbolTable THEN S_Main
    ELSE IF S_main \in DOMAIN st.symbolTable THEN S_main
    ELSE S_empty

\* line 117
EntryPoint(st) ==
    IF S_main \in DOMAIN st.symbolTable THEN S_main
    ELSE IF S_Main \in DOMAIN st.symbolTable THEN S_Main
    ELSE S_empty

\* a compile() that emits the HALT before the call of the entry point
CompileEnd_HaltBeforeCall(st) ==
    LET entry == EntryPoint(st)
        halted == emitOp(st, HALT)
    IN  IF entry # S_empty THEN emitString(emitOp(halted, CALL), entry) ELSE halted

\* lines 117-122
CompileEnd(st) ==
    LET entry == EntryPoint(st)
    IN  emitOp(IF entry # S_empty THEN emitString(emitOp(st, CALL), entry) ELSE st, HALT)

\* lines 924-925: out.write("CASM", 4); out.write((char*)bc.data(), bc.size());
ArtifactOf(bc) == S_CASM \o bc

\* one turn of the while of line 114: a call of parseTopLevel
CompileStep ==
    /\ cstate = "parsing"
    /\ CompileLoopCond(CompObj)
    /\ \E r \in {parseTopLevel(CompObj)} :
           /\ pos' = r.pos
           /\ bytecode' = r.bytecode
           /\ symbolTable' = r.symbolTable
           /\ modulePrefix' = r.modulePrefix
           /\ emitted' = r.emitted
           /\ cstate' = IF r.status # "ok" THEN r.status
                        ELSE IF r.pos = pos THEN "hung"
                        ELSE "parsing"
    /\ UNCHANGED <<build, tokens, pythonMode, artifact, foldVars, lexVars, preVars>>

\* the while of line 114 is over: lines 117-123
CompileReturn ==
    /\ cstate = "parsing"
    /\ ~CompileLoopCond(CompObj)
    /\ bytecode' = CompileEnd(CompObj).bytecode
    /\ cstate' = "compiled"
    /\ UNCHANGED <<build, tokens, pythonMode, pos, symbolTable, modulePrefix, artifact,
                   emitted, foldVars, lexVars, preVars>>

\* lines 923-925 with the output file open
WriteArtifact ==
    /\ cstate = "compiled"
    /\ artifact' = ArtifactOf(bytecode)
    /\ cstate' = "written"
    /\ UNCHANGED <<build, tokens, pythonMode, pos, bytecode, symbolTable, modulePrefix,
                   emitted, foldVars, lexVars, preVars>>

\* lines 923-925 when the output file cannot be opened: the writes do nothing
WriteArtifactFails ==
    /\ cstate = "compiled"
    /\ cstate' = "not_written"
    /\ UNCHANGED <<build, tokens, pythonMode, pos, bytecode, symbolTable, modulePrefix,
                   artifact, emitted, foldVars, lexVars, preVars>>

NextCompile == CompileStep \/ CompileReturn \/ WriteArtifact \/ WriteArtifactFails

(***************************************************************************)
(* Tokens as the lexer builds them (lexer.hpp:126, 142, 206, 214, 269-335) *)
(***************************************************************************)
Kw(v) == [type |-> "KEYWORD", value |-> v]
Id(v) == [type |-> "IDENTIFIER", value |-> v]
Num(v) == [type |-> "INTEGER", value |-> v]
Str(v) == [type |-> "STRING", value |-> v]
Eof == [type |-> "END_OF_FILE", value |-> S_empty]

\* the text readOperator stores in the token of each type
OpText(type) ==
    CASE type = "PLUS" -> <<43>>
      [] type = "MINUS" -> <<45>>
      [] type = "STAR" -> <<42>>
      [] type = "SLASH" -> <<47>>
      [] type = "MOD" -> <<37>>
      [] type = "LSHIFT" -> <<60, 60>>
      [] type = "RSHIFT" -> <<62, 62>>
      [] type = "AMPERSAND" -> <<38>>
      [] type = "PIPE" -> <<124>>
      [] type = "CARET" -> <<94>>
      [] type = "LT" -> <<60>>
      [] type = "GT" -> <<62>>
      [] type = "LE" -> <<60, 61>>
      [] type = "GE" -> <<62, 61>>
      [] type = "EQUALS_EQUALS" -> <<61, 61>>
      [] type = "NOT_EQ" -> <<33, 61>>
      [] type = "LAND" -> <<38, 38>>
      [] type = "LOR" -> <<124, 124>>
      [] type = "NOT" -> <<33>>
      [] type = "EQUALS" -> <<61>>
      [] type = "COLON_EQUALS" -> <<58, 61>>
      [] type = "DOT" -> <<46>>
      [] type = "ARROW" -> <<45, 62>>
      [] type = "LPAREN" -> <<40>>
      [] type = "RPAREN" -> <<41>>
      [] type = "LBRACE" -> <<123>>
      [] type = "RBRACE" -> <<125>>
      [] type = "LBRACKET" -> <<91>>
      [] type = "RBRACKET" -> <<93>>
      [] type = "COLON" -> <<58>>
      [] type = "SEMICOLON" -> <<59>>
      [] type = "COMMA" -> <<44>>

Op(type) == [type |-> type, value |-> OpText(type)]

\* lexer.hpp:58 and 63
IndentTok(n) == [type |-> "INDENT", value |-> to_string(n)]
DedentTok == [type |-> "DEDENT", value |-> S_empty]

(***************************************************************************)
(* Inputs of compile(): token sequences as the lexer returns them for      *)
(* short programs, END_OF_FILE last.                                       *)
(***************************************************************************)
Semi == Op("SEMICOLON")

Stmt_1 == <<Num(to_string(1)), Semi>>                                  \* 1 ;
Stmt_2 == <<Num(to_string(2)), Semi>>                                  \* 2 ;
Stmt_Dangling == <<Semi, Op("PLUS"), Semi>>                            \* ; + ;
Stmt_Assign == <<Id(S_x), Op("EQUALS"), Num(to_string(1)), Semi>>      \* x = 1 ;
Stmt_Sum == <<Id(S_y), Op("PLUS"), Num(to_string(3)), Semi>>           \* y + 3 ;
Stmt_Field == <<Id(S_a), Op("DOT"), Id(S_b), Semi>>                    \* a . b ;
Stmt_Call ==                                                           \* f ( 1 , 2 ) ;
    <<Id(S_f), Op("LPAREN"), Num(to_string(1)), Op("COMMA"), Num(to_string(2)),
      Op("RPAREN"), Semi>>
Stmt_Assert ==                                                         \* assert x , 1 ;
    <<Kw(S_assert), Id(S_x), Op("COMMA"), Num(to_string(1)), Semi>>
Stmt_Return == <<Kw(S_return), Num(to_string(1)), Semi>>               \* return 1 ;
Stmt_Decl ==                                                           \* int z = 1 ;
    <<Kw(S_int), Id(S_z), Op("EQUALS"), Num(to_string(1)), Semi>>
Stmt_Pi == <<Id(S_math), Op("DOT"), Id(S_pi), Op("PLUS"), Semi>>       \* math . pi + ;

Braced(B) == <<Op("LBRACE")>> \o B \o <<Op("RBRACE")>>

IfOf(B) == <<Kw(S_if), Id(S_x)>> \o Braced(B)
IfElseOf(B) == IfOf(B) \o <<Kw(S_else)>> \o Braced(B)
IfElifOf(B) ==
    IfOf(B) \o <<Kw(S_elif), Op("LPAREN"), Id(S_y), Op("RPAREN")>> \o Braced(B)
            \o <<Kw(S_else)>> \o Braced(B)
ForOf(B) == <<Kw(S_for), Id(S_a), Kw(S_in), Id(S_b)>> \o Braced(B)
TryOf(B) ==
    <<Kw(S_try)>> \o Braced(B)
        \o <<Kw(S_catch), Op("LPAREN"), Id(S_c), Op("RPAREN")>> \o Braced(B)
FuncOf(B) ==
    <<Kw(S_void), Id(S_f), Op("LPAREN"), Kw(S_int), Id(S_a), Op("RPAREN")>> \o Braced(B)

Wrap(B) == {IfOf(B), IfElseOf(B), IfElifOf(B), ForOf(B), TryOf(B), FuncOf(B)}

SimpleStmts ==
    {Stmt_1, Stmt_Dangling, Stmt_Assign, Stmt_Sum, Stmt_Field, Stmt_Call, Stmt_Assert,
     Stmt_Return, Stmt_Decl}

MaxNesting == 2

RECURSIVE Nested(_)
\* the constructs of nesting depth at most k, and the bodies of depth 0
Nested(k) ==
    IF k = 0 THEN {<<>>, Stmt_1 \o Stmt_2, Stmt_Assign}
    ELSE LET inner == Nested(k - 1) IN inner \cup UNION {Wrap(B) : B \in inner}

Prefixes == {<<>>, Stmt_Assign, Stmt_1 \o Stmt_2}
Suffixes == {<<>>, Stmt_Dangling, Stmt_Sum}

StructuredPrograms ==
    {p \o i \o q \o <<Eof>> : p \in Prefixes, i \in SimpleStmts \cup Nested(MaxNesting),
                              q \in Suffixes}

\* sources that stop in the middle of a construct
TruncatedPrograms ==
    {<<Kw(S_for), Eof>>,
     <<Kw(S_if), Eof>>,
     <<Id(S_f), Op("LPAREN"), Num(to_string(1)), Eof>>,
     IfOf(<<>>) \o <<Kw(S_elif), Eof>>,
     <<Id(S_Point), Id(S_a), Op("EQUALS"), Op("LBRACE"), Num(to_string(1)), Eof>>}

\* int f ( 1 ) { }    and    "Point" ;
StuckPrograms ==
    {<<Kw(S_int), Id(S_f), Op("LPAREN"), Num(to_string(1)), Op("RPAREN")>> \o Braced(<<>>)
        \o <<Eof>>,
     <<Str(S_Point), Semi, Eof>>}

LongTextLen == 245
LongText == [i \in 1..LongTextLen |-> 97]

\* "aaa...a" ;  void f ( ) { }  math . pi + ;      and the same with main
LongPrograms ==
    {<<Str(LongText), Semi, Kw(S_void), Id(n), Op("LPAREN"), Op("RPAREN")>> \o Braced(<<>>)
        \o q \o <<Eof>> : n \in {S_f, S_main}, q \in {<<>>, Stmt_Pi}}

ModBegin(n) == <<Kw(S___module__), Id(n)>>
ModEnd == <<Kw(S___endmodule__)>>

ModuleItems ==
    {ModBegin(S_A), ModBegin(S_B), ModEnd, Stmt_Assign, Stmt_Field, Stmt_Decl,
     <<Id(S_f), Op("LPAREN"), Op("RPAREN"), Semi>>}

MaxModuleItems == 4

RECURSIVE Concat(_)
Concat(ss) == IF ss = <<>> THEN <<>> ELSE Head(ss) \o Concat(Tail(ss))

ModulePrograms == {Concat(ss) \o <<Eof>> : ss \in SeqsUpTo(ModuleItems, MaxModuleItems)}

\* def f ( a ) : INDENT return a ; DEDENT     and    if x : INDENT 1 ; 2 ; DEDENT ; + ;
PythonPrograms ==
    {<<Kw(S_def), Id(S_f), Op("LPAREN"), Id(S_a), Op("RPAREN"), Op("COLON"), IndentTok(4),
       Kw(S_return), Id(S_a), DedentTok, Eof>>,
     <<Kw(S_if), Id(S_x), Op("COLON"), IndentTok(4)>> \o Stmt_1 \o Stmt_2 \o <<DedentTok>>
        \o Stmt_Dangling \o <<Eof>>,
     <<Id(S_x), Op("EQUALS"), Op("LBRACE"), Op("RBRACE"), Eof>>}

\* void n ( ) { }
EmptyFunc(n) == <<Kw(S_void), Id(n), Op("LPAREN"), Op("RPAREN")>> \o Braced(<<>>)

MaxEntryFuncs == 2

\* up to MaxEntryFuncs functions named f, main or Main, in every order
EntryPrograms ==
    {Concat(ss) \o <<Eof>> :
        ss \in SeqsUpTo({EmptyFunc(S_f), EmptyFunc(S_main), EmptyFunc(S_Main)}, MaxEntryFuncs)}

MaxOperandLen == 256

\* names and literals of 1, MaxOperandLen - 1 and MaxOperandLen characters
OperandTexts == {[i \in 1..n |-> 97] : n \in {1, MaxOperandLen - 1, MaxOperandLen}}

\*  "t" ;     t ;     t ( ) ;     t = 1 ;     and the literal  "a\n" ;
OperandPrograms ==
    {<<Str(t), Semi, Eof>> : t \in OperandTexts \cup {<<97, 92, 110>>}}
        \cup {<<Id(t), Semi, Eof>> : t \in OperandTexts}
        \cup {<<Id(t), Op("LPAREN"), Op("RPAREN"), Semi, Eof>> : t \in OperandTexts}
        \cup {<<Id(t), Op("EQUALS"), Num(to_string(1)), Semi, Eof>> : t \in OperandTexts}

CompileInputs ==
    [tokens : StructuredPrograms \cup TruncatedPrograms \cup StuckPrograms
                \cup LongPrograms \cup ModulePrograms \cup EntryPrograms
                \cup OperandPrograms,
       python : {FALSE}]
        \cup [tokens : PythonPrograms, python : {TRUE}]

InitCompileOn(inputs) ==
    /\ build \in [arith : ArithBuilds, oob : OobBuilds]
    /\ \E inp \in inputs : tokens = inp.tokens /\ pythonMode = inp.python
    /\ pos = 0
    /\ bytecode = <<>>
    /\ symbolTable = NoSymbols
    /\ modulePrefix = <<>>
    /\ cstate = "parsing"
    /\ artifact = <<>>
    /\ emitted = <<>>
    /\ FoldIdle
    /\ LexIdle
    /\ PreIdle

InitCompile == InitCompileOn(CompileInputs)

SpecCompile == InitCompile /\ [][NextCompile]_vars


(***************************************************************************)
(* Reading the buffer back as instructions: the layouts are those of the   *)
(* emitters (emitPushInt, emitJump: opcode and 4 bytes; emitString after   *)
(* PUSH_STR, STORE, LOAD, CALL: a length byte and that many bytes;         *)
(* emitSyscall and the address opcodes: opcode and 1 byte).                *)
(***************************************************************************)
InstrLen(bc, i) ==
    LET op == At(bc, i)
    IN  IF op = PUSH_INT \/ op \in JumpOps THEN 5
        ELSE IF op = PUSH_STR \/ op \in NameOps
        THEN IF i + 1 < Len(bc) THEN 2 + At(bc, i + 1) ELSE 1
        ELSE IF op \in {SYSCALL, READ_ADDR, RAW_READ_ADDR, RAW_WRITE_ADDR} THEN 2
        ELSE 1

RECURSIVE InstrStartsFrom(_, _)
InstrStartsFrom(bc, i) ==
    IF i >= Len(bc) THEN {} ELSE {i} \cup InstrStartsFrom(bc, i + InstrLen(bc, i))

\* the offsets at which an instruction of the buffer starts
InstrStarts(bc) == InstrStartsFrom(bc, 0)

\* the operand of the 5-byte instruction at offset i
OperandAt(bc, i) == ToInt(At(bc, i + 1), At(bc, i + 2), At(bc, i + 3), At(bc, i + 4))

\* compile() has returned
Returned == cstate \in {"compiled", "written", "not_written"}

\* C3: after compile() returns, the operand of every JMP, JZ, FOR_ITER and
\* TRY_ENTER instruction of the buffer is an offset t with 0 <= t < len(bytecode).
C3_JumpTargetsInRange ==
    Returned =>
        \A i \in InstrStarts(bytecode) :
            At(bytecode, i) \in JumpOps =>
                /\ i + 4 < Len(bytecode)
                /\ OperandAt(bytecode, i) >= 0
                /\ OperandAt(bytecode, i) < Len(bytecode)

HasDot(name) == \E i \in 1..Len(name) : name[i] = 46

\* C7: while the module prefix is "M.", every STORE, LOAD and CALL of a simple
\* name N is emitted with the name M.N, and every name that contains a dot is
\* emitted as it is, without the prefix.
C7_SimplePrefixedDottedVerbatim ==
    \A k \in 1..Len(emitted) :
        emitted[k].prefix # <<>> =>
            emitted[k].out = IF HasDot(emitted[k].name) THEN emitted[k].name
                             ELSE emitted[k].prefix \o emitted[k].name

RECURSIVE ModuleStack(_, _, _)
\* the names of the modules open before token k, innermost last: __module__ N
\* opens N, __endmodule__ closes the innermost open module
ModuleStack(i, k, stack) ==
    IF i >= k THEN stack
    ELSE IF TokAt(i).value = S___module__ /\ i + 1 < NTok
    THEN ModuleStack(i + 2, k, Append(stack, TokAt(i + 1).value))
    ELSE IF TokAt(i).value = S___endmodule__
    THEN ModuleStack(i + 1, k, IF stack = <<>> THEN stack ELSE SubSeq(stack, 1, Len(stack) - 1))
    ELSE ModuleStack(i + 1, k, stack)

PrefixOfStack(stack) == IF stack = <<>> THEN <<>> ELSE stack[Len(stack)] \o S_dot

\* C8: the module prefix behaves as a stack: every name is mangled with the
\* prefix of the innermost module open where the name stands (after an inner
\* __endmodule__ that is the enclosing module's prefix again), and the prefix is
\* empty only outside every __module__/__endmodule__ pair.
C8_PrefixIsInnermostOpenModule ==
    \A k \in 1..Len(emitted) :
        emitted[k].prefix = PrefixOfStack(ModuleStack(0, emitted[k].at, <<>>))

\* C9: the buffer compile() returns is non-empty and ends with HALT, and the
\* artifact written is the four bytes CASM followed by exactly that buffer.
C9_HaltLastAndCasmFirst ==
    /\ Returned => bytecode # <<>> /\ bytecode[Len(bytecode)] = HALT
    /\ cstate = "written" =>
          /\ Len(artifact) = Len(bytecode) + 4
          /\ SubSeq(artifact, 1, 4) = <<67, 65, 83, 77>>
          /\ SubSeq(artifact, 5, Len(artifact)) = bytecode

C9_WitnessMainCalled ==
    /\ cstate = "written"
    /\ S_main \in DOMAIN symbolTable
    /\ Len(bytecode) > LongTextLen
    /\ SubSeq(bytecode, Len(bytecode) - 6, Len(bytecode)) = <<CALL, 4>> \o S_main \o <<HALT>>
    /\ SubSeq(artifact, 1, 5) = S_CASM \o <<PUSH_STR>>

\* what the end of compile() appends for a symbol table with main, with Main
\* only, and with neither
EntryTail ==
    IF <<109, 97, 105, 110>> \in DOMAIN symbolTable
    THEN <<CALL, 4, 109, 97, 105, 110, HALT>>
    ELSE IF <<77, 97, 105, 110>> \in DOMAIN symbolTable
    THEN <<CALL, 4, 77, 97, 105, 110, HALT>>
    ELSE <<HALT>>

CompileReturns == cstate = "parsing" /\ cstate' = "compiled"

\* C11: at the end of compile() the buffer gets CALL main, HALT when the symbol
\* table contains main, else CALL Main, HALT when it contains Main, else HALT
\* alone and no CALL; nothing else is appended and main wins over Main.
C11_EntryCallThenHalt ==
    [][CompileReturns => bytecode' = bytecode \o EntryTail]_vars

C11_WitnessBothMainWins ==
    /\ cstate = "compiled"
    /\ {<<109, 97, 105, 110>>, <<77, 97, 105, 110>>} \subseteq DOMAIN symbolTable
    /\ SubSeq(bytecode, Len(bytecode) - 6, Len(bytecode)) = <<CALL, 4, 109, 97, 105, 110, HALT>>

C11_WitnessMainOnlyCapital ==
    /\ cstate = "compiled"
    /\ DOMAIN symbolTable = {<<77, 97, 105, 110>>}
    /\ SubSeq(bytecode, Len(bytecode) - 6, Len(bytecode)) = <<CALL, 4, 77, 97, 105, 110, HALT>>

\* the offset of the length byte in the code of an OperandPrograms program:
\* behind the opcode, which for `t = 1 ;` follows the PUSH_INT 1
OperandLengthAt == IF tokens[2].type = "EQUALS" THEN 6 ELSE 1

\* C16: every string operand emitted by emitString and emitStringLiteral is
\* one length byte L followed by exactly L raw bytes, for every string length
\* including lengths above 255: in the code of a program that emits one
\* string operand, the L bytes behind the length byte end just before the
\* final HALT.
C16_LengthByteCountsOperandBytes ==
    (Returned /\ tokens \in OperandPrograms) =>
        /\ At(bytecode, OperandLengthAt - 1) \in {PUSH_STR, LOAD, CALL, STORE}
        /\ Len(bytecode) = OperandLengthAt + 1 + At(bytecode, OperandLengthAt) + 1

\* compile() has returned on a literal of MaxOperandLen characters
C16_WitnessLongLiteral ==
    /\ Returned
    /\ tokens = <<Str([i \in 1..MaxOperandLen |-> 97]), Semi, Eof>>
    /\ Len(bytecode) > MaxOperandLen

(***************************************************************************)
(* if / elif* / else? constructs alone in a program: up to MaxElifs elif   *)
(* arms, with or without an else, every block the same simple statements.  *)
(***************************************************************************)
MaxElifs == 2

\*  if ( x ) { B }  then n times  elif ( y ) { B }  then, with an else,  else { B }
RECURSIVE ElifArms(_, _)
ElifArms(n, B) ==
    IF n = 0 THEN <<>>
    ELSE <<Kw(S_elif), Op("LPAREN"), Id(S_y), Op("RPAREN")>> \o Braced(B) \o ElifArms(n - 1, B)

IfConstruct(n, withElse, B) ==
    <<Kw(S_if), Op("LPAREN"), Id(S_x), Op("RPAREN")>> \o Braced(B) \o ElifArms(n, B)
        \o (IF withElse THEN <<Kw(S_else)>> \o Braced(B) ELSE <<>>)

IfPrograms ==
    {IfConstruct(n, e, B) \o <<Eof>> :
        n \in 0..MaxElifs, e \in BOOLEAN, B \in {Stmt_Assign, Stmt_1 \o Stmt_2}}

InitIf == InitCompileOn([tokens : IfPrograms, python : {FALSE}])

SpecIf == InitIf /\ [][NextCompile]_vars

\* the offsets of the instructions with opcode op, in increasing order
RECURSIVE OffsetsFrom(_, _, _)
OffsetsFrom(bc, i, op) ==
    IF i >= Len(bc) THEN <<>>
    ELSE (IF At(bc, i) = op THEN <<i>> ELSE <<>>) \o OffsetsFrom(bc, i + InstrLen(bc, i), op)

JzOffsets == OffsetsFrom(bytecode, 0, JZ)
JmpOffsets == OffsetsFrom(bytecode, 0, JMP)

\* the first byte after the construct: the HALT that compile() appends
ConstructEnd == Len(bytecode) - 1

\* the number of arms with a condition that the source has
CondArms == Cardinality({i \in 1..Len(tokens) : tokens[i].value \in {S_if, S_elif}})
HasElse == \E i \in 1..Len(tokens) : tokens[i].value = S_else

\* C18: in an if / elif* / else? construct the operand of each arm's JZ in the
\* final bytecode is the offset where the next arm starts (behind the JMP that
\* ends the arm's block), and it is the end of the construct only for the last
\* arm when no arm follows it.
C18_JzTargetsNextArm ==
    Returned =>
        /\ Len(JzOffsets) = CondArms
        /\ \A i \in 1..Len(JzOffsets) :
              OperandAt(bytecode, JzOffsets[i]) =
                  IF i <= Len(JmpOffsets) THEN JmpOffsets[i] + 5 ELSE ConstructEnd

\* compile() has returned on if / elif / else
C18_WitnessIfElifElse ==
    /\ Returned
    /\ CondArms = 2 /\ HasElse
    /\ Len(JzOffsets) = 2 /\ Len(JmpOffsets) = 2

\* C19: in an if / elif* / else? construct the operand of each arm's terminal
\* JMP (emitted after the arm's block) in the final bytecode is the offset of
\* the first byte after the whole construct, for every number of elif arms and
\* with or without an else.
C19_JmpTargetsConstructEnd ==
    Returned =>
        /\ Len(JmpOffsets) = CondArms - 1 + (IF HasElse THEN 1 ELSE 0)
        /\ \A i \in 1..Len(JmpOffsets) : OperandAt(bytecode, JmpOffsets[i]) = ConstructEnd

\* C19, as the code has it: the operand of an arm's terminal JMP is the offset
\* behind the block of the arm that follows: the first byte after the construct
\* when that arm is the last one, and otherwise the terminal JMP of that arm,
\* so that the JMPs lead from each arm to the end of the construct one after
\* the other.
C19_JmpTargetsEndOfNextArm ==
    Returned =>
        /\ Len(JmpOffsets) = CondArms - 1 + (IF HasElse THEN 1 ELSE 0)
        /\ \A i \in 1..Len(JmpOffsets) :
              OperandAt(bytecode, JmpOffsets[i]) =
                  IF i < Len(JmpOffsets) THEN JmpOffsets[i + 1] ELSE ConstructEnd

\* compile() has returned on if / elif / elif, which has two terminal JMPs
C19_WitnessTwoElifs ==
    /\ Returned
    /\ CondArms = 3 /\ ~HasElse
    /\ Len(JmpOffsets) = 2

(***************************************************************************)
(* assert statements alone in a program or followed by an assignment: the  *)
(* condition a name or a number, with and without a message.               *)
(***************************************************************************)
AssertConds == {<<Id(S_x)>>, <<Id(S_y)>>, <<Num(to_string(1))>>, <<Num(to_string(0))>>}

AssertMessages ==
    {<<>>, <<Op("COMMA"), Num(to_string(1))>>, <<Op("COMMA"), Str(S_a)>>,
     <<Op("COMMA"), Id(S_y)>>}

AssertPrograms ==
    {<<Kw(S_assert)>> \o c \o m \o <<Semi>> \o q \o <<Eof>> :
        c \in AssertConds, m \in AssertMessages, q \in {<<>>, Stmt_Assign}}

InitAssert == InitCompileOn([tokens : AssertPrograms, python : {FALSE}])

SpecAssert == InitAssert /\ [][NextCompile]_vars

\* the offsets of the SYSCALL 0xE0 instructions of the buffer
AbortSyscalls ==
    {s \in InstrStarts(bytecode) : At(bytecode, s) = SYSCALL /\ At(bytecode, s + 1) = 224}

\* C20: for assert cond (with or without a message) the JZ emitted after the
\* condition jumps over the abort sequence PUSH_INT 1, SYSCALL 0xE0: its
\* operand is the offset of the first byte after the SYSCALL 0xE0.
C20_AssertJzSkipsAbort ==
    Returned =>
        /\ Len(JzOffsets) = 1
        /\ \E s \in AbortSyscalls : OperandAt(bytecode, JzOffsets[1]) = s + 2

\* compile() has returned on an assert with a message: the buffer holds the
\* JZ, the code of the message and the abort sequence
C20_WitnessAssertWithMessage ==
    /\ Returned
    /\ tokens = <<Kw(S_assert), Id(S_x), Op("COMMA"), Str(S_a), Semi, Eof>>
    /\ Len(JzOffsets) = 1
    /\ AbortSyscalls # {}

(***************************************************************************)
(* Walrus expressions  n := e ;  alone in a program or behind an           *)
(* assignment, e a number, a name or a string.                             *)
(***************************************************************************)
WalrusNames == {S_x, S_z}

WalrusValues == {<<Num(to_string(1))>>, <<Num(to_string(3))>>, <<Id(S_y)>>, <<Str(S_a)>>}

WalrusOf(n, e) == <<Id(n), Op("COLON_EQUALS")>> \o e \o <<Semi>>

WalrusPrograms ==
    {p \o WalrusOf(n, e) \o <<Eof>> :
        p \in {<<>>, Stmt_Assign}, n \in WalrusNames, e \in WalrusValues}

InitWalrus == InitCompileOn([tokens : WalrusPrograms, python : {FALSE}])

SpecWalrus == InitWalrus /\ [][NextCompile]_vars

\* the name on the left of the := of the program
WalrusTarget ==
    tokens[(CHOOSE i \in 1..Len(tokens) : tokens[i].type = "COLON_EQUALS") - 1].value

\* STORE n, LOAD n and the HALT of compile()
StoreLoadHalt(n) == <<STORE, Len(n)>> \o n \o <<LOAD, Len(n)>> \o n \o <<HALT>>

\* C21: for a walrus expression x := e with an identifier x on the left,
\* parseExpression consumes the tokens of e and emits the code of e followed
\* by STORE x and LOAD x (mangled), so that the value stays on the stack.
C21_WalrusStoresAndReloads ==
    Returned =>
        /\ Len(bytecode) >= Len(StoreLoadHalt(WalrusTarget))
        /\ SubSeq(bytecode, Len(bytecode) - Len(StoreLoadHalt(WalrusTarget)) + 1, Len(bytecode))
               = StoreLoadHalt(WalrusTarget)

\* compile() has returned on  z := 3 ;
C21_WitnessWalrusCompiled ==
    /\ Returned
    /\ tokens = WalrusOf(S_z, <<Num(to_string(3))>>) \o <<Eof>>
    /\ bytecode # <<>>

(***************************************************************************)
(* Function declarations: one function f per program, with no, one or two  *)
(* parameters, typed (int a) or bare (a), a braced or an indented body.    *)
(***************************************************************************)
MaxParams == 2

ParamNames == <<S_a, S_b, S_c>>

\*  int a , int b     or     a , b
RECURSIVE ParamList(_, _)
ParamList(n, typed) ==
    IF n = 0 THEN <<>>
    ELSE ParamList(n - 1, typed) \o (IF n > 1 THEN <<Op("COMMA")>> ELSE <<>>)
             \o (IF typed THEN <<Kw(S_int)>> ELSE <<>>) \o <<Id(ParamNames[n])>>

FuncBodies ==
    {Braced(B) : B \in {<<>>, Stmt_1, Stmt_Return, Stmt_Assign \o Stmt_Return}}
        \cup {<<Op("COLON"), IndentTok(4)>> \o Stmt_Return \o <<DedentTok>>}

\*  head f ( params ) body
FuncDecl(head, n, typed, body) ==
    <<Kw(head), Id(S_f), Op("LPAREN")>> \o ParamList(n, typed) \o <<Op("RPAREN")>> \o body

FuncPrograms ==
    {p \o FuncDecl(h, n, t, b) \o s \o <<Eof>> :
        p \in {<<>>, Stmt_Assign}, h \in {S_int, S_def}, n \in 0..MaxParams,
        t \in BOOLEAN, b \in FuncBodies, s \in {<<>>, Stmt_2}}

InitFunc == InitCompileOn([tokens : FuncPrograms, python : {FALSE}])

SpecFunc == InitFunc /\ [][NextCompile]_vars

\* the position of the ( and of the ) of the parameter list
ParamOpen == CHOOSE i \in 1..Len(tokens) : tokens[i].type = "LPAREN"
ParamClose == CHOOSE i \in 1..Len(tokens) : tokens[i].type = "RPAREN"

\* the parameters the source declares, in declaration order
DeclaredParams ==
    LET at == {i \in ParamOpen..ParamClose : tokens[i].type = "IDENTIFIER"}
        RECURSIVE Listed(_)
        Listed(i) == IF i > ParamClose THEN <<>>
                     ELSE (IF i \in at THEN <<tokens[i].value>> ELSE <<>>) \o Listed(i + 1)
    IN  Listed(ParamOpen)

\* the prologue of f: PUSH_INT v, STORE f, JMP t
PrologueLen == 5 + (2 + Len(S_f)) + 5
FuncEntry == symbolTable[S_f]
PrologueStart == FuncEntry - PrologueLen
PrologueJmp == FuncEntry - 5

\* STORE pn, ..., STORE p1
RECURSIVE StoresReversed(_)
StoresReversed(ps) ==
    IF ps = <<>> THEN <<>>
    ELSE <<STORE, Len(ps[Len(ps)])>> \o ps[Len(ps)] \o StoresReversed(SubSeq(ps, 1, Len(ps) - 1))

\* the buffer holds the bytes s at the offset i
HasBytesAt(bc, i, s) == i >= 0 /\ i + Len(s) <= Len(bc) /\ SubSeq(bc, i + 1, i + Len(s)) = s

\* C22: the bytecode of a function declaration begins with PUSH_INT 0 and
\* STORE of the function's mangled name, and the operand of that PUSH_INT is
\* still 0 in the bytecode compile() returns.
C22_ProloguePushesZero ==
    Returned =>
        /\ S_f \in DOMAIN symbolTable
        /\ At(bytecode, PrologueStart) = PUSH_INT
        /\ OperandAt(bytecode, PrologueStart) = 0
        /\ HasBytesAt(bytecode, PrologueStart + 5, <<STORE, Len(S_f)>> \o S_f)

\* C22, as the code has it: the bytecode of a function declaration begins
\* with PUSH_INT and STORE of the function's mangled name, and in the bytecode
\* compile() returns the operand of that PUSH_INT is the offset of the function
\* body, the value of the function's symbol-table entry.
C22_ProloguePushesBodyOffset ==
    Returned =>
        /\ S_f \in DOMAIN symbolTable
        /\ At(bytecode, PrologueStart) = PUSH_INT
        /\ OperandAt(bytecode, PrologueStart) = FuncEntry
        /\ HasBytesAt(bytecode, PrologueStart + 5, <<STORE, Len(S_f)>> \o S_f)

\* compile() has returned on a program with a function declaration and the
\* prologue of the function is in the buffer
C22_WitnessPrologueEmitted ==
    /\ Returned
    /\ S_f \in DOMAIN symbolTable
    /\ At(bytecode, PrologueStart) = PUSH_INT
    /\ HasBytesAt(bytecode, PrologueStart + 5, <<STORE, Len(S_f)>> \o S_f)

\* C23: for a function declaration with the parameters p1..pn the bytes
\* behind the prologue JMP are STORE pn, ..., STORE p1, then the body, then
\* RET; the symbol-table entry is the offset of the first of these bytes, and
\* the operand of the prologue JMP is the offset of the byte behind that RET.
C23_StoresBodyRetBehindJmp ==
    Returned =>
        /\ S_f \in DOMAIN symbolTable
        /\ At(bytecode, PrologueJmp) = JMP
        /\ HasBytesAt(bytecode, FuncEntry, StoresReversed(DeclaredParams))
        /\ OperandAt(bytecode, PrologueJmp) - 1
               \in InstrStartsFrom(bytecode, FuncEntry + Len(StoresReversed(DeclaredParams)))
        /\ At(bytecode, OperandAt(bytecode, PrologueJmp) - 1) = RET

\* compile() has returned on a function with two parameters
C23_WitnessTwoParams ==
    /\ Returned
    /\ S_f \in DOMAIN symbolTable
    /\ Len(DeclaredParams) = 2
    /\ At(bytecode, PrologueJmp) = JMP

(***************************************************************************)
(* Statements that start with a keyword parseStatement has no branch for   *)
(***************************************************************************)
\*  goto a ;    goto ;    while ( x ) ;    while ( x ) y + 3 ;
KeywordStatements ==
    {<<Kw(S_goto), Id(S_a), Semi>>,
     <<Kw(S_goto), Semi>>,
     <<Kw(S_while), Op("LPAREN"), Id(S_x), Op("RPAREN"), Semi>>,
     <<Kw(S_while), Op("LPAREN"), Id(S_x), Op("RPAREN")>> \o Stmt_Sum}

KeywordPrograms ==
    {p \o k \o s \o <<Eof>> :
        p \in {<<>>, Stmt_Assign}, k \in KeywordStatements, s \in {<<>>, Stmt_Decl}}

InitKeyword == InitCompileOn([tokens : KeywordPrograms, python : {FALSE}])

SpecKeyword == InitKeyword /\ [][NextCompile]_vars

\* where the keyword statement starts and the ; that ends it (as offsets)
KeywordAt == (CHOOSE i \in 1..Len(tokens) : tokens[i].value \in {S_goto, S_while}) - 1
KeywordEnd ==
    (CHOOSE i \in (KeywordAt + 1)..Len(tokens) :
        /\ tokens[i].type = "SEMICOLON"
        /\ \A j \in (KeywordAt + 1)..(i - 1) : tokens[j].type # "SEMICOLON") - 1

\* C27: a statement that starts with a keyword without a branch of its own
\* (goto, while) appends no bytes to the buffer: as long as compile() stands
\* inside the statement or behind the ; that ends it, the buffer is the one it
\* had at the first token of the statement (empty with no statement before
\* it, otherwise the code of  x = 1 ;).
C27_NoBytesForKeywordStatement ==
    (cstate = "parsing" /\ KeywordAt <= pos /\ pos <= KeywordEnd + 1) =>
        bytecode = IF KeywordAt = 0 THEN <<>> ELSE PushIntBytes(1) \o <<STORE, 1, 120>>

\* compile() has gone through  goto a ;
C27_WitnessGotoCompiled ==
    /\ cstate = "parsing"
    /\ tokens[KeywordAt + 1].value = S_goto
    /\ tokens[KeywordAt + 2].type = "IDENTIFIER"
    /\ pos = KeywordEnd + 1

(***************************************************************************)
(* Token sequences of every shape: up to MaxSoupLen tokens taken from a    *)
(* small alphabet, END_OF_FILE last                                        *)
(***************************************************************************)
MaxSoupLen == 2

SoupTokens ==
    {Kw(S_int), Id(S_f), Num(to_string(1)), Semi, Op("COMMA"), Op("EQUALS"),
     Op("LPAREN"), Op("RPAREN"), Op("LBRACE"), Op("RBRACE"), Op("LBRACKET")}

SoupPrograms == {s \o <<Eof>> : s \in SeqsUpTo(SoupTokens, MaxSoupLen)} \cup StuckPrograms

InitSoup == InitCompileOn([tokens : SoupPrograms, python : {FALSE}])

\* compile() and the writes of main() run to their end unless a loop of the
\* code itself never ends: every step that can be taken is taken
SpecSoup == InitSoup /\ [][NextCompile]_vars /\ WF_vars(NextCompile)

\* C28: compile() terminates on every finite token sequence that ends in
\* END_OF_FILE: every run reaches the return of compile() (or the end of the
\* process), no loop of the parser going on for ever on a token it does not
\* recognize.
C28_CompileTerminates == <>(Returned \/ cstate = "crashed")

\* the parameter loop of  int f ( 1 ) { }  goes on for ever
C28_WitnessParamLoopHangs ==
    /\ cstate = "hung"
    /\ tokens = <<Kw(S_int), Id(S_f), Op("LPAREN"), Num(to_string(1)), Op("RPAREN")>>
                    \o Braced(<<>>) \o <<Eof>>

\* C10: at the end of compile() the symbol table maps every declared function
\* to an offset below len(bytecode) at which an instruction starts.
C10_SymbolsAtInstructionStarts ==
    Returned =>
        \A n \in DOMAIN symbolTable :
            /\ symbolTable[n] < Len(bytecode)
            /\ symbolTable[n] \in InstrStarts(bytecode)

(***************************************************************************)
(* Integer expressions: their value computed directly under the precedence *)
(* table, and the value the emitted stack code leaves.  Both use the same  *)
(* 32-bit operations; an operation without a value (a zero divisor, a      *)
(* shift count outside 0..31) makes the whole evaluation undefined.        *)
(***************************************************************************)
Op32(type, a, b) ==
    LET val(v) == [ok |-> TRUE, val |-> v]
        none   == [ok |-> FALSE, val |-> 0]
    IN  CASE type = "PLUS" -> val(AddW(a, b))
          [] type = "MINUS" -> val(SubW(a, b))
          [] type = "STAR" -> val(MulW(a, b))
          [] type = "SLASH" -> IF b = 0 THEN none
                               ELSE IF a = MinInt /\ b = -1 THEN val(MinInt)
                               ELSE val(DivT(a, b))
          [] type = "MOD" -> IF b = 0 THEN none
                             ELSE IF a = MinInt /\ b = -1 THEN val(0)
                             ELSE val(ModT(a, b))
          [] type = "LSHIFT" -> IF b >= 0 /\ b <= 31 THEN val(ShlW(a, b)) ELSE none
          [] type = "RSHIFT" -> IF b >= 0 /\ b <= 31 THEN val(ShrW(a, b)) ELSE none
          [] type = "AMPERSAND" -> val(BitW("and", a, b))
          [] type = "PIPE" -> val(BitW("or", a, b))
          [] type = "CARET" -> val(BitW("xor", a, b))

RECURSIVE LiteralValue(_, _, _)
\* the decimal number s, from digit k on, in 32-bit wrap-around arithmetic
LiteralValue(s, k, acc) ==
    IF k > Len(s) \/ acc \notin Int THEN acc
    ELSE LiteralValue(s, k + 1, AddW(MulW(acc, 10), s[k] - 48))

RECURSIVE DirectExpr(_, _), DirectPrimary(_), DirectLoop(_, _)
\* [pos, ok, val]: the value of the expression that starts at token i
DirectPrimary(i) ==
    IF TokAt(i).type = "INTEGER"
    THEN [pos |-> i + 1, ok |-> TRUE, val |-> LiteralValue(TokAt(i).value, 1, 0)]
    ELSE IF TokAt(i).type = "LPAREN"
    THEN LET r == DirectExpr(i + 1, 0)
         IN  [r EXCEPT !.pos = @ + 1, !.ok = @ /\ TokAt(r.pos).type = "RPAREN"]
    ELSE [pos |-> i + 1, ok |-> FALSE, val |-> 0]

DirectLoop(left, minPrecedence) ==
    LET op == TokAt(left.pos)
        prec == getPrecedence(op.type)
    IN  IF ~left.ok \/ op.type \notin FoldTypes \/ prec < minPrecedence THEN left
        ELSE LET right == DirectExpr(left.pos + 1, prec + 1)
                 r == Op32(op.type, left.val, right.val)
             IN  IF ~right.ok THEN right
                 ELSE DirectLoop([pos |-> right.pos, ok |-> r.ok, val |-> r.val],
                                 minPrecedence)

DirectExpr(i, minPrecedence) == DirectLoop(DirectPrimary(i), minPrecedence)

\* the whole input is one expression statement:  expr ; END_OF_FILE
DirectValue == DirectExpr(0, 0)
DirectDefined == DirectValue.ok /\ DirectValue.pos = NTok - 2

OpcodeType(op) ==
    CASE op = ADD -> "PLUS"
      [] op = SUB -> "MINUS"
      [] op = MUL -> "STAR"
      [] op = DIV -> "SLASH"
      [] op = MOD -> "MOD"
      [] op = LSHIFT -> "LSHIFT"
      [] op = RSHIFT -> "RSHIFT"
      [] op = BIT_AND -> "AMPERSAND"
      [] op = BIT_OR -> "PIPE"
      [] op = BIT_XOR -> "CARET"
      [] OTHER -> "NONE"

RECURSIVE RunStack(_, _, _)
\* [ok, stack]: the stack code of bc from offset i on, run on the stack
RunStack(bc, i, stack) ==
    LET op == At(bc, i)
        n  == Len(stack)
        r  == Op32(OpcodeType(op), stack[n - 1], stack[n])
    IN  IF i >= Len(bc) \/ op = HALT THEN [ok |-> TRUE, stack |-> stack]
        ELSE IF op = PUSH_INT /\ i + 4 < Len(bc)
        THEN RunStack(bc, i + 5, Append(stack, OperandAt(bc, i)))
        ELSE IF OpcodeType(op) # "NONE" /\ n >= 2 /\ r.ok
        THEN RunStack(bc, i + 1, Append(SubSeq(stack, 1, n - 2), r.val))
        ELSE [ok |-> FALSE, stack |-> stack]

L_0 == <<48>>
L_1 == <<49>>
L_2 == <<50>>
L_3 == <<51>>
L_32 == <<51, 50>>
L_2147483647 == <<50, 49, 52, 55, 52, 56, 51, 54, 52, 55>>
L_2147483648 == <<50, 49, 52, 55, 52, 56, 51, 54, 52, 56>>

Literals == {L_0, L_1, L_3, L_32, L_2147483647, L_2147483648}
SmallLiterals == {L_0, L_2, L_3}

\* a op b,  a op b op c,  ( a op b ) op c,  a op ( b op c )
Expressions ==
    {<<Num(a), Op(o), Num(b)>> : a \in Literals, b \in Literals, o \in FoldTypes}
    \cup UNION {
        {<<Num(a), Op(o), Num(b), Op(p), Num(c)>>,
         <<Op("LPAREN"), Num(a), Op(o), Num(b), Op("RPAREN"), Op(p), Num(c)>>,
         <<Num(a), Op(o), Op("LPAREN"), Num(b), Op(p), Num(c), Op("RPAREN")>>} :
            a \in SmallLiterals, b \in SmallLiterals, c \in SmallLiterals,
            o \in FoldTypes, p \in FoldTypes}

ExprInputs == [tokens : {e \o <<Semi, Eof>> : e \in Expressions}, python : {FALSE}]

InitExpr == InitCompileOn(ExprInputs) /\ build.oob = "crash"

SpecExpr == InitExpr /\ [][NextCompile]_vars

\* C1: for an expression of integer literals, parentheses and the operators
\* + - * / % << >> & | ^, the code appended by parseExpression, run as stack code
\* in 32-bit wrap-around arithmetic, leaves exactly the integer that evaluating
\* the expression directly under the precedence table gives.
C1_FoldedCodeLeavesDirectValue ==
    (DirectDefined /\ (pos > 0 \/ cstate # "parsing")) =>
        /\ cstate \notin {"crashed", "hung"}
        /\ RunStack(bytecode, 0, <<>>) = [ok |-> TRUE, stack |-> <<DirectValue.val>>]

(***************************************************************************)
(* The lexer (lexer.hpp).  A Lexer object is the record                    *)
(*   [source, python, pos, indentStack, tokens, pc, indent]                *)
(* where tokens and indent are the locals of tokenize() and pc says where  *)
(* tokenize() stands:                                                      *)
(*   "loop"         at the test of the while of line 46                    *)
(*   "dedent"       at the test of the while of line 61                    *)
(*   "afterindent"  at line 67, the indentation of the line handled        *)
(*   "final"        at the test of the while of line 122                   *)
(*   "done"         returned                                               *)
(***************************************************************************)
isspace(c) == c \in {9, 10, 11, 12, 13, 32}
isdigit(c) == c >= 48 /\ c <= 57
isalpha(c) == (c >= 65 /\ c <= 90) \/ (c >= 97 /\ c <= 122)
isalnum(c) == isalpha(c) \/ isdigit(c)

\* source[i] of a std::string: source[source.length()] is '\0'
CharAt(s, i) == IF i < Len(s) THEN s[i + 1] ELSE 0

\* the characters i .. j-1 of s
Text(s, i, j) == SubSeq(s, i + 1, j)

\* where  while (pos < source.length() && !Stop(source[pos])) pos++  ends
\* when it starts at i
ScanTo(s, i, Stop(_)) ==
    IF i >= Len(s) THEN i
    ELSE CHOOSE j \in i..Len(s) :
            /\ j >= Len(s) \/ Stop(s[j + 1])
            /\ \A k \in i..(j - 1) : ~Stop(s[k + 1])

S_define == <<100, 101, 102, 105, 110, 101>>
S_include == <<105, 110, 99, 108, 117, 100, 101>>

\* lexer.hpp:151-204: the words mapped to TokenType::KEYWORD
Keywords ==
    {<<105, 110, 116>>,   \* int
     <<105, 102>>,   \* if
     <<101, 108, 115, 101>>,   \* else
     <<119, 104, 105, 108, 101>>,   \* while
     <<100, 101, 102>>,   \* def
     <<114, 101, 116, 117, 114, 110>>,   \* return
     <<99, 108, 97, 115, 115>>,   \* class
     <<105, 109, 112, 111, 114, 116>>,   \* import
     <<117, 115, 105, 110, 103>>,   \* using
     <<110, 97, 109, 101, 115, 112, 97, 99, 101>>,   \* namespace
     <<115, 116, 97, 116, 105, 99>>,   \* static
     <<118, 111, 105, 100>>,   \* void
     <<112, 117, 98, 108, 105, 99>>,   \* public
     <<102, 111, 114>>,   \* for
     <<105, 110>>,   \* in
     <<116, 114, 121>>,   \* try
     <<101, 120, 99, 101, 112, 116>>,   \* except
     <<102, 105, 110, 97, 108, 108, 121>>,   \* finally
     <<97, 115>>,   \* as
     <<114, 97, 105, 115, 101>>,   \* raise
     <<99, 111, 110, 116, 105, 110, 117, 101>>,   \* continue
     <<84, 114, 117, 101>>,   \* True
     <<70, 97, 108, 115, 101>>,   \* False
     <<78, 111, 110, 101>>,   \* None
     <<112, 114, 105, 118, 97, 116, 101>>,   \* private
     <<112, 114, 111, 116, 101, 99, 116, 101, 100>>,   \* protected
     <<116, 121, 112, 101, 100, 101, 102>>,   \* typedef
     <<115, 116, 114, 117, 99, 116>>,   \* struct
     <<117, 110, 105, 111, 110>>,   \* union
     <<101, 110, 117, 109>>,   \* enum
     <<98, 111, 111, 108>>,   \* bool
     <<116, 114, 117, 101>>,   \* true
     <<102, 97, 108, 115, 101>>,   \* false
     <<97, 108, 105, 103, 110, 97, 115>>,   \* alignas
     <<97, 108, 105, 103, 110, 111, 102>>,   \* alignof
     <<97, 115, 109>>,   \* asm
     <<97, 117, 116, 111>>,   \* auto
     <<98, 114, 101, 97, 107>>,   \* break
     <<99, 97, 115, 101>>,   \* case
     <<99, 97, 116, 99, 104>>,   \* catch
     <<99, 104, 97, 114>>,   \* char
     <<99, 104, 97, 114, 56, 95, 116>>,   \* char8_t
     <<99, 104, 97, 114, 49, 54, 95, 116>>,   \* char16_t
     <<99, 104, 97, 114, 51, 50, 95, 116>>,   \* char32_t
     <<99, 111, 110, 99, 101, 112, 116>>,   \* concept
     <<99, 111, 110, 115, 116>>,   \* const
     <<99, 111, 110, 115, 116, 101, 118, 97, 108>>,   \* consteval
     <<99, 111, 110, 115, 116, 101, 120, 112, 114>>,   \* constexpr
     <<99, 111, 110, 115, 116, 105, 110, 105, 116>>,   \* constinit
     <<99, 111, 110, 115, 116, 95, 99, 97, 115, 116>>,   \* const_cast
     <<99, 111, 95, 97, 119, 97, 105, 116>>,   \* co_await
     <<99, 111, 95, 114, 101, 116, 117, 114, 110>>,   \* co_return
     <<99, 111, 95, 121, 105, 101, 108, 100>>,   \* co_yield
     <<100, 101, 99, 108, 116, 121, 112, 101>>,   \* decltype
     <<100, 101, 102, 97, 117, 108, 116>>,   \* default
     <<100, 101, 108, 101, 116, 101>>,   \* delete
     <<100, 111>>,   \* do
     <<100, 111, 117, 98, 108, 101>>,   \* double
     <<100, 121, 110, 97, 109, 105, 99, 95, 99, 97, 115, 116>>,   \* dynamic_cast
     <<101, 120, 112, 108, 105, 99, 105, 116>>,   \* explicit
     <<101, 120, 112, 111, 114, 116>>,   \* export
     <<101, 120, 116, 101, 114, 110>>,   \* extern
     <<102, 108, 111, 97, 116>>,   \* float
     <<102, 114, 105, 101, 110, 100>>,   \* friend
     <<103, 111, 116, 111>>,   \* goto
     <<105, 110, 108, 105, 110, 101>>,   \* inline
     <<108, 111, 110, 103>>,   \* long
     <<109, 111, 100, 117, 108, 101>>,   \* module
     <<109, 117, 116, 97, 98, 108, 101>>,   \* mutable
     <<110, 101, 119>>,   \* new
     <<110, 111, 101, 120, 99, 101, 112, 116>>,   \* noexcept
     <<110, 117, 108, 108, 112, 116, 114>>,   \* nullptr
     <<111, 112, 101, 114, 97, 116, 111, 114>>,   \* operator
     <<114, 101, 103, 105, 115, 116, 101, 114>>,   \* register
     <<114, 101, 105, 110, 116, 101, 114, 112, 114, 101, 116, 95, 99, 97, 115, 116>>,   \* reinterpret_cast
     <<114, 101, 113, 117, 105, 114, 101, 115>>,   \* requires
     <<115, 104, 111, 114, 116>>,   \* short
     <<115, 105, 103, 110, 101, 100>>,   \* signed
     <<115, 105, 122, 101, 111, 102>>,   \* sizeof
     <<115, 116, 97, 116, 105, 99, 95, 97, 115, 115, 101, 114, 116>>,   \* static_assert
     <<115, 116, 97, 116, 105, 99, 95, 99, 97, 115, 116>>,   \* static_cast
     <<115, 119, 105, 116, 99, 104>>,   \* switch
     <<116, 101, 109, 112, 108, 97, 116, 101>>,   \* template
     <<116, 104, 105, 115>>,   \* this
     <<116, 104, 114, 101, 97, 100, 95, 108, 111, 99, 97, 108>>,   \* thread_local
     <<116, 104, 114, 111, 119>>,   \* throw
     <<116, 121, 112, 101, 105, 100>>,   \* typeid
     <<116, 121, 112, 101, 110, 97, 109, 101>>,   \* typename
     <<117, 110, 115, 105, 103, 110, 101, 100>>,   \* unsigned
     <<118, 105, 114, 116, 117, 97, 108>>,   \* virtual
     <<118, 111, 108, 97, 116, 105, 108, 101>>,   \* volatile
     <<119, 99, 104, 97, 114, 95, 116>>,   \* wchar_t
     <<95, 65, 108, 105, 103, 110, 97, 115>>,   \* _Alignas
     <<95, 65, 108, 105, 103, 110, 111, 102>>,   \* _Alignof
     <<95, 65, 116, 111, 109, 105, 99>>,   \* _Atomic
     <<95, 66, 111, 111, 108>>,   \* _Bool
     <<95, 67, 111, 109, 112, 108, 101, 120>>,   \* _Complex
     <<95, 71, 101, 110, 101, 114, 105, 99>>,   \* _Generic
     <<95, 73, 109, 97, 103, 105, 110, 97, 114, 121>>,   \* _Imaginary
     <<95, 78, 111, 114, 101, 116, 117, 114, 110>>,   \* _Noreturn
     <<95, 83, 116, 97, 116, 105, 99, 95, 97, 115, 115, 101, 114, 116>>,   \* _Static_assert
     <<95, 84, 104, 114, 101, 97, 100, 95, 108, 111, 99, 97, 108>>,   \* _Thread_local
     <<114, 101, 115, 116, 114, 105, 99, 116>>,   \* restrict
     <<116, 121, 112, 101, 111, 102>>,   \* typeof
     <<116, 121, 112, 101, 111, 102, 95, 117, 110, 113, 117, 97, 108>>,   \* typeof_unqual
     <<112, 97, 115, 115>>,   \* pass
     <<100, 101, 108>>,   \* del
     <<103, 108, 111, 98, 97, 108>>,   \* global
     <<110, 111, 110, 108, 111, 99, 97, 108>>,   \* nonlocal
     <<108, 97, 109, 98, 100, 97>>,   \* lambda
     <<119, 105, 116, 104>>,   \* with
     <<121, 105, 101, 108, 100>>,   \* yield
     <<97, 115, 121, 110, 99>>,   \* async
     <<97, 119, 97, 105, 116>>,   \* await
     <<102, 114, 111, 109>>,   \* from
     <<101, 108, 105, 102>>,   \* elif
     <<105, 115>>,   \* is
     <<97, 115, 115, 101, 114, 116>>,   \* assert
     <<109, 97, 116, 99, 104>>,   \* match
     <<95, 95, 109, 111, 100, 117, 108, 101, 95, 95>>,   \* __module__
     <<95, 95, 101, 110, 100, 109, 111, 100, 117, 108, 101, 95, 95>>}   \* __endmodule__

\* lexer.hpp:166-168: the alternative operator words and their token types
AltOperatorType(val) ==
    CASE val = <<97, 110, 100>> -> "LAND"   \* and
      [] val = <<111, 114>> -> "LOR"   \* or
      [] val = <<110, 111, 116>> -> "NOT"   \* not
      [] val = <<110, 111, 116, 95, 101, 113>> -> "NOT_EQ"   \* not_eq
      [] val = <<98, 105, 116, 97, 110, 100>> -> "AMPERSAND"   \* bitand
      [] val = <<98, 105, 116, 111, 114>> -> "PIPE"   \* bitor
      [] val = <<99, 111, 109, 112, 108>> -> "TILDE"   \* compl
      [] val = <<120, 111, 114>> -> "CARET"   \* xor
      [] val = <<97, 110, 100, 95, 101, 113>> -> "AND_EQ"   \* and_eq
      [] val = <<111, 114, 95, 101, 113>> -> "OR_EQ"   \* or_eq
      [] val = <<120, 111, 114, 95, 101, 113>> -> "XOR_EQ"   \* xor_eq
      [] OTHER -> "IDENTIFIER"

\* lines 137-143
readNumber(s, p) ==
    LET IsEnd(c) == ~(isdigit(c) \/ c = 46)
        e == ScanTo(s, p, IsEnd)
    IN  [pos |-> e, toks |-> <<[type |-> "INTEGER", value |-> Text(s, p, e)]>>]

\* lines 145-207
readIdentifier(s, p) ==
    LET IsEnd(c) == ~(isalnum(c) \/ c = 95)
        e == ScanTo(s, p, IsEnd)
        val == Text(s, p, e)
        type == IF val \in Keywords THEN "KEYWORD" ELSE AltOperatorType(val)
    IN  [pos |-> e, toks |-> <<[type |-> type, value |-> val]>>]

\* lines 209-215
readString(s, p) ==
    LET IsQuote(c) == c = 34
        e == ScanTo(s, p + 1, IsQuote)
    IN  [pos |-> IF e < Len(s) THEN e + 1 ELSE e,
         toks |-> <<[type |-> "STRING", value |-> Text(s, p + 1, e)]>>]

IsTripleQuote(s, j) == CharAt(s, j) = 34 /\ CharAt(s, j + 1) = 34 /\ CharAt(s, j + 2) = 34

\* lines 217-226; the call is made with p + 2 < Len(s)
readTripleString(s, p) ==
    LET e == CHOOSE j \in (p + 3)..Len(s) :
                /\ ~(j + 2 < Len(s)) \/ IsTripleQuote(s, j)
                /\ \A k \in (p + 3)..(j - 1) : k + 2 < Len(s) /\ ~IsTripleQuote(s, k)
    IN  [pos |-> e + 3, toks |-> <<[type |-> "STRING", value |-> Text(s, p + 3, e)]>>]

\* lines 267-336: the token type and the number of characters taken
OperatorOf(c, n, m) ==
    CASE c = 43 -> IF n = 43 THEN <<"PLUS_PLUS", 2>>
                   ELSE IF n = 61 THEN <<"PLUS_EQ", 2>> ELSE <<"PLUS", 1>>
      [] c = 45 -> IF n = 45 THEN <<"MINUS_MINUS", 2>>
                   ELSE IF n = 62 THEN <<"ARROW", 2>>
                   ELSE IF n = 61 THEN <<"MINUS_EQ", 2>> ELSE <<"MINUS", 1>>
      [] c = 42 -> IF n = 61 THEN <<"STAR_EQ", 2>> ELSE <<"STAR", 1>>
      [] c = 47 -> IF n = 61 THEN <<"SLASH_EQ", 2>> ELSE <<"SLASH", 1>>
      [] c = 37 -> IF n = 61 THEN <<"MOD_EQ", 2>> ELSE <<"MOD", 1>>
      [] c = 60 -> IF n = 60 THEN (IF m = 61 THEN <<"LSHIFT_EQ", 3>> ELSE <<"LSHIFT", 2>>)
                   ELSE IF n = 61 THEN <<"LE", 2>> ELSE <<"LT", 1>>
      [] c = 62 -> IF n = 62 THEN (IF m = 61 THEN <<"RSHIFT_EQ", 3>> ELSE <<"RSHIFT", 2>>)
                   ELSE IF n = 61 THEN <<"GE", 2>> ELSE <<"GT", 1>>
      [] c = 38 -> IF n = 38 THEN <<"LAND", 2>>
                   ELSE IF n = 61 THEN <<"AND_EQ", 2>> ELSE <<"AMPERSAND", 1>>
      [] c = 124 -> IF n = 124 THEN <<"LOR", 2>>
                    ELSE IF n = 61 THEN <<"OR_EQ", 2>> ELSE <<"PIPE", 1>>
      [] c = 33 -> IF n = 61 THEN <<"NOT_EQ", 2>> ELSE <<"NOT", 1>>
      [] c = 126 -> <<"TILDE", 1>>
      [] c = 94 -> IF n = 61 THEN <<"XOR_EQ", 2>> ELSE <<"CARET", 1>>
      [] c = 46 -> <<"DOT", 1>>
      [] c = 61 -> IF n = 61 THEN <<"EQUALS_EQUALS", 2>> ELSE <<"EQUALS", 1>>
      [] c = 40 -> <<"LPAREN", 1>>
      [] c = 41 -> <<"RPAREN", 1>>
      [] c = 123 -> <<"LBRACE", 1>>
      [] c = 125 -> <<"RBRACE", 1>>
      [] c = 91 -> <<"LBRACKET", 1>>
      [] c = 93 -> <<"RBRACKET", 1>>
      [] c = 58 -> IF n = 61 THEN <<"COLON_EQUALS", 2>> ELSE <<"COLON", 1>>
      [] c = 59 -> <<"SEMICOLON", 1>>
      [] c = 44 -> <<"COMMA", 1>>
      [] OTHER -> <<"UNKNOWN", 1>>

\* lines 267-336; the text of every operator token is the characters taken
readOperator(s, p) ==
    LET o == OperatorOf(CharAt(s, p), CharAt(s, p + 1), CharAt(s, p + 2))
    IN  [pos |-> p + o[2], toks |-> <<[type |-> o[1], value |-> Text(s, p, p + o[2])]>>]

RECURSIVE ExprEnd(_, _, _)
\* lines 242-246: where the scan of the inner expression stops
ExprEnd(s, p, depth) ==
    IF p >= Len(s) \/ depth = 0 THEN p
    ELSE LET d == IF s[p + 1] = 123 THEN depth + 1
                  ELSE IF s[p + 1] = 125 THEN depth - 1 ELSE depth
         IN  IF d > 0 THEN ExprEnd(s, p + 1, d) ELSE p

NewLexer(s, python) ==
    [source |-> s, python |-> python, pos |-> 0, indentStack |-> <<0>>,
     tokens |-> <<>>, pc |-> "loop", indent |-> 0]

FStringPart(val) == IF val = <<>> THEN <<>> ELSE <<[type |-> "FSTRING_PART", value |-> val]>>

\* line 50
AtLineStart(lx) ==
    IF lx.python THEN (IF lx.pos = 0 THEN TRUE ELSE CharAt(lx.source, lx.pos - 1) = 10)
    ELSE FALSE

\* lines 51-54: the width of the blanks at pos and where they end
IsNotBlank(c) == c # 32 /\ c # 9
BlanksEnd(lx) == ScanTo(lx.source, lx.pos, IsNotBlank)
BlanksWidth(lx) ==
    LET blanks == lx.pos..(BlanksEnd(lx) - 1)
    IN  Cardinality({k \in blanks : CharAt(lx.source, k) = 32})
            + 4 * Cardinality({k \in blanks : CharAt(lx.source, k) = 9})

\* a lexer that also pushes an indentation equal to the top of the stack
MeasureIndent_PushAtLeast(lx) ==
    LET width == BlanksWidth(lx)
        at == [lx EXCEPT !.pos = BlanksEnd(lx), !.indent = width]
    IN  IF width >= at.indentStack[Len(at.indentStack)]
        THEN [at EXCEPT !.indentStack = Append(@, width),
                        !.tokens = Append(@, IndentTok(width)),
                        !.pc = "afterindent"]
        ELSE [at EXCEPT !.pc = "dedent"]

\* lines 51-59: the indentation of a line is measured; a deeper one is pushed
MeasureIndent(lx) ==
    LET width == BlanksWidth(lx)
        at == [lx EXCEPT !.pos = BlanksEnd(lx), !.indent = width]
    IN  IF width > at.indentStack[Len(at.indentStack)]
        THEN [at EXCEPT !.indentStack = Append(@, width),
                        !.tokens = Append(@, IndentTok(width)),
                        !.pc = "afterindent"]
        ELSE [at EXCEPT !.pc = "dedent"]

\* lines 61-65, one turn of the while
DedentOnce(lx) ==
    IF lx.indent < lx.indentStack[Len(lx.indentStack)]
    THEN [lx EXCEPT !.indentStack = SubSeq(@, 1, Len(@) - 1),
                    !.tokens = Append(@, DedentTok)]
    ELSE [lx EXCEPT !.pc = "afterindent"]

\* a lexer that closes only the innermost open level at the end of input
FinalStep_OneDedent(lx) ==
    IF Len(lx.indentStack) > 1
    THEN [lx EXCEPT !.indentStack = <<0>>, !.tokens = Append(@, DedentTok)]
    ELSE [lx EXCEPT !.tokens = Append(@, Eof), !.pc = "done"]

\* lines 122-127, one turn of the while or the END_OF_FILE and the return
FinalStep(lx) ==
    IF Len(lx.indentStack) > 1
    THEN [lx EXCEPT !.indentStack = SubSeq(@, 1, Len(@) - 1),
                    !.tokens = Append(@, DedentTok)]
    ELSE [lx EXCEPT !.tokens = Append(@, Eof), !.pc = "done"]

\* F(v) with v computed once, in every mode of evaluation
Force(v, F(_)) == CHOOSE r \in {F(x) : x \in {v}} : TRUE

RECURSIVE LexStep(_), RunLexer(_), FStringScan(_, _, _, _, _)

\* Lexer::tokenize of a new Lexer on s
tokenize(s, python) == RunLexer(NewLexer(s, python)).tokens

\* an f-string scan that keeps the END_OF_FILE of the inner lexer
FStringScan_KeepsInnerEof(s, python, p, val, toks) ==
    IF p >= Len(s) \/ s[p + 1] = 34
    THEN [pos |-> IF p < Len(s) THEN p + 1 ELSE p, toks |-> toks \o FStringPart(val)]
    ELSE IF s[p + 1] = 123
    THEN LET e == ExprEnd(s, p + 1, 1)
         IN  FStringScan(s, python, IF e < Len(s) THEN e + 1 ELSE e, <<>>,
                         toks \o FStringPart(val)
                              \o <<[type |-> "LBRACE_EXP", value |-> <<123>>]>>
                              \o tokenize(Text(s, p + 1, e), python)
                              \o <<[type |-> "RBRACE_EXP", value |-> <<125>>]>>)
    ELSE FStringScan(s, python, p + 1, Append(val, s[p + 1]), toks)

\* lines 228-265, from position p on, with the local val and fTokens
FStringScan(s, python, p, val, toks) ==
    IF p >= Len(s) \/ s[p + 1] = 34
    THEN [pos |-> IF p < Len(s) THEN p + 1 ELSE p, toks |-> toks \o FStringPart(val)]
    ELSE IF s[p + 1] = 123
    THEN Force(ExprEnd(s, p + 1, 1), LAMBDA e :
         Force(tokenize(Text(s, p + 1, e), python), LAMBDA innerTokens :
         Force(IF innerTokens # <<>> /\ innerTokens[Len(innerTokens)].type = "END_OF_FILE"
              THEN SubSeq(innerTokens, 1, Len(innerTokens) - 1)
              ELSE innerTokens, LAMBDA inner :
         FStringScan(s, python, IF e < Len(s) THEN e + 1 ELSE e, <<>>,
                     toks \o FStringPart(val)
                          \o <<[type |-> "LBRACE_EXP", value |-> <<123>>]>>
                          \o inner
                          \o <<[type |-> "RBRACE_EXP", value |-> <<125>>]>>))))
    ELSE FStringScan(s, python, p + 1, Append(val, s[p + 1]), toks)

\* lines 77-85
SkipDirective(s, p) ==
    LET IsNewline(c) == c = 10
        e == ScanTo(s, p + 1, isspace)
    IN  IF Text(s, p + 1, e) \in {S_define, S_include} THEN ScanTo(s, e, IsNewline) ELSE e

\* lines 92-99
SkipBlockComment(s, p) ==
    LET Closes(j) == CharAt(s, j) = 42 /\ CharAt(s, j + 1) = 47
        e == CHOOSE j \in (p + 2)..Len(s) :
                /\ ~(j + 1 < Len(s)) \/ Closes(j)
                /\ \A k \in (p + 2)..(j - 1) : k + 1 < Len(s) /\ ~Closes(k)
    IN  e + 2

\* lines 71-120: the rest of a turn of the while of line 46, with pos < length
ScanToken(lx) ==
    LET s == lx.source
        p == lx.pos
        c == CharAt(s, p)
        IsNewline(ch) == ch = 10
        r == IF isspace(c) THEN [pos |-> p + 1, toks |-> <<>>]
             ELSE IF c = 35 THEN [pos |-> SkipDirective(s, p), toks |-> <<>>]
             ELSE IF c = 47 /\ p + 1 < Len(s) /\ CharAt(s, p + 1) = 47
             THEN [pos |-> ScanTo(s, p, IsNewline), toks |-> <<>>]
             ELSE IF c = 47 /\ p + 1 < Len(s) /\ CharAt(s, p + 1) = 42
             THEN [pos |-> SkipBlockComment(s, p), toks |-> <<>>]
             ELSE IF isdigit(c) THEN readNumber(s, p)
             ELSE IF c = 34
             THEN IF p + 2 < Len(s) /\ CharAt(s, p + 1) = 34 /\ CharAt(s, p + 2) = 34
                  THEN readTripleString(s, p)
                  ELSE readString(s, p)
             ELSE IF c = 102 /\ p + 1 < Len(s) /\ CharAt(s, p + 1) = 34
             THEN FStringScan(s, lx.python, p + 2, <<>>, <<>>)
             ELSE IF isalpha(c) \/ c = 95 THEN readIdentifier(s, p)
             ELSE readOperator(s, p)
    IN  Force(r, LAMBDA t : [lx EXCEPT !.pos = t.pos, !.tokens = @ \o t.toks, !.pc = "loop"])

\* line 67 and what follows it
AfterIndent(lx) ==
    IF lx.pos >= Len(lx.source) THEN [lx EXCEPT !.pc = "final"] ELSE ScanToken(lx)

\* line 46 and what follows it
LoopTop(lx) ==
    IF lx.pos >= Len(lx.source) THEN [lx EXCEPT !.pc = "final"]
    ELSE IF AtLineStart(lx) THEN MeasureIndent(lx)
    ELSE ScanToken(lx)

LexStep(lx) ==
    CASE lx.pc = "loop" -> LoopTop(lx)
      [] lx.pc = "dedent" -> DedentOnce(lx)
      [] lx.pc = "afterindent" -> AfterIndent(lx)
      [] lx.pc = "final" -> FinalStep(lx)

RunLexer(lx) == Force(lx, LAMBDA n : IF n.pc = "done" THEN n ELSE RunLexer(LexStep(n)))

(***************************************************************************)
(* tokenize() of the outermost Lexer, one step at a time                   *)
(***************************************************************************)
LexObj ==
    [source |-> source, python |-> lexPython, pos |-> lpos, indentStack |-> indentStack,
     tokens |-> ltokens, pc |-> lstate, indent |-> indent]

LexBecomes(lx) ==
    /\ lpos' = lx.pos
    /\ indentStack' = lx.indentStack
    /\ ltokens' = lx.tokens
    /\ lstate' = lx.pc
    /\ indent' = lx.indent
    /\ UNCHANGED <<build, source, lexPython, compVars, foldVars, preVars>>

\* lines 50-59: at the start of a line in Python mode
LexIndent ==
    /\ lstate = "loop"
    /\ lpos < Len(source)
    /\ AtLineStart(LexObj)
    /\ \E lx \in {MeasureIndent(LexObj)} : LexBecomes(lx)

\* lines 61-65
LexDedent ==
    /\ lstate = "dedent"
    /\ \E lx \in {DedentOnce(LexObj)} : LexBecomes(lx)

\* lines 71-120: white space, a comment or one token (an f-string: its tokens)
LexToken ==
    /\ \/ lstate = "loop" /\ ~AtLineStart(LexObj)
       \/ lstate = "afterindent"
    /\ lpos < Len(source)
    /\ \E lx \in {ScanToken(LexObj)} : LexBecomes(lx)

\* the while of line 46 ends, by its test or by the break of line 67
LexLoopEnds ==
    /\ lstate \in {"loop", "afterindent"}
    /\ lpos >= Len(source)
    /\ \E lx \in {[LexObj EXCEPT !.pc = "final"]} : LexBecomes(lx)

\* lines 122-125
LexFinalDedent ==
    /\ lstate = "final"
    /\ Len(indentStack) > 1
    /\ \E lx \in {FinalStep(LexObj)} : LexBecomes(lx)

\* lines 126-127
LexReturn ==
    /\ lstate = "final"
    /\ Len(indentStack) <= 1
    /\ \E lx \in {FinalStep(LexObj)} : LexBecomes(lx)

NextLex == LexIndent \/ LexDedent \/ LexToken \/ LexLoopEnds \/ LexFinalDedent \/ LexReturn

(***************************************************************************)
(* Sources: up to MaxLines lines, each some blanks and then nothing, a     *)
(* name or an f-string; the inner expression of each f-string is itself    *)
(* one of the sources.                                                     *)
(***************************************************************************)
MaxLines == 3

LineIndents == {<<>>, <<32>>, <<9>>}

\*  a    f"{ a}"    f"a{a}"    f"{<newline><tab>a}"    f"{f"{ a}"}"
LineBodies ==
    {<<>>, <<97>>,
     <<102, 34, 123, 32, 97, 125, 34>>,
     <<102, 34, 97, 123, 97, 125, 34>>,
     <<102, 34, 123, 10, 9, 97, 125, 34>>,
     <<102, 34, 123, 102, 34, 123, 32, 97, 125, 34, 125, 34>>}

Lines == {i \o b : i \in LineIndents, b \in LineBodies}

RECURSIVE JoinLines(_)
JoinLines(ls) ==
    IF Len(ls) = 1 THEN ls[1] ELSE ls[1] \o <<10>> \o JoinLines(Tail(ls))

LexSources == {JoinLines(ls) : ls \in SeqsUpTo(Lines, MaxLines) \ {<<>>}}

InitLex ==
    /\ build \in [arith : {"x86"}, oob : {"crash"}]
    /\ source \in LexSources
    /\ lexPython \in BOOLEAN
    /\ lpos = 0
    /\ indentStack = <<0>>
    /\ ltokens = <<>>
    /\ lstate = "loop"
    /\ indent = 0
    /\ CompIdle
    /\ FoldIdle
    /\ PreIdle

SpecLex == InitLex /\ [][NextLex]_vars

CountType(toks, k, type) == Cardinality({i \in 1..k : toks[i].type = type})

\* C4: in Python mode every prefix of the token sequence of tokenize has at
\* most as many DEDENT as INDENT tokens, the tokens of the nested lexers of
\* f-string interpolations included; in the whole sequence the two counts are
\* equal, every level still open at the end of input being closed by one DEDENT
\* before the END_OF_FILE that ends the sequence.
C4_DedentsNeverExceedIndents ==
    lexPython =>
        /\ \A k \in 0..Len(ltokens) :
               CountType(ltokens, k, "DEDENT") <= CountType(ltokens, k, "INDENT")
        /\ lstate = "done" =>
               /\ CountType(ltokens, Len(ltokens), "DEDENT")
                      = CountType(ltokens, Len(ltokens), "INDENT")
               /\ ltokens[Len(ltokens)].type = "END_OF_FILE"
               /\ CountType(ltokens, Len(ltokens), "END_OF_FILE") = 1

\* two levels are closed at the end of the input, after an f-string whose nested
\* lexer gave an INDENT of its own
C4_WitnessNestedAndFinal ==
    /\ lexPython
    /\ lstate = "done"
    /\ Len(ltokens) >= 4
    /\ ltokens[Len(ltokens) - 1].type = "DEDENT"
    /\ ltokens[Len(ltokens) - 2].type = "DEDENT"
    /\ \E i \in 1..(Len(ltokens) - 1) :
           ltokens[i].type = "LBRACE_EXP" /\ ltokens[i + 1].type = "INDENT"

IndentStackOrdered ==
    /\ indentStack # <<>>
    /\ indentStack[1] = 0
    /\ \A i \in 1..(Len(indentStack) - 1) : indentStack[i] < indentStack[i + 1]

\* what a step of tokenize does to the stack and the tokens it appends
IndentStepPaired ==
    LET new == SubSeq(ltokens', Len(ltokens) + 1, Len(ltokens'))
        nI  == CountType(new, Len(new), "INDENT")
        nD  == CountType(new, Len(new), "DEDENT")
    IN  /\ Len(ltokens') >= Len(ltokens)
        /\ SubSeq(ltokens', 1, Len(ltokens)) = ltokens
        /\ CASE Len(indentStack') > Len(indentStack) ->
                   /\ indentStack' = Append(indentStack, indent')
                   /\ new = <<IndentTok(indent')>>
             [] Len(indentStack') < Len(indentStack) ->
                   /\ Len(indentStack) > 1
                   /\ indentStack' = SubSeq(indentStack, 1, Len(indentStack) - 1)
                   /\ new = <<DedentTok>>
             [] OTHER ->
                   /\ indentStack' = indentStack
                   /\ nI = nD
                   /\ nI > 0 => new[1].type \in {"FSTRING_PART", "LBRACE_EXP"}

\* C5: at every point of tokenize the indent stack has 0 at the bottom and is
\* strictly increasing from bottom to top; an INDENT token is appended together
\* with exactly one push and a DEDENT token with exactly one pop (the tokens a
\* nested f-string lexer returns belong to its own stack), and the bottom 0 is
\* never popped.
C5_IndentStackIncreasingAndPaired ==
    []IndentStackOrdered /\ [][IndentStepPaired]_vars

\* in the middle of the dedent loop: two levels were pushed, one is popped and
\* the next is about to be
C5_WitnessTwoLevelDedent ==
    /\ lexPython
    /\ lstate = "dedent"
    /\ indent = 0
    /\ indentStack = <<0, 1>>
    /\ CountType(ltokens, Len(ltokens), "INDENT") = 2
    /\ ltokens[Len(ltokens)].type = "DEDENT"

(***************************************************************************)
(* Every source of up to MaxSourceLen characters over the characters that  *)
(* open and close strings, comments, f-strings and lines, and every source *)
(* that opens a string, a comment or an interpolation and goes on with up  *)
(* to MaxTailLen of these characters; both modes.                          *)
(***************************************************************************)
MaxSourceLen == 3

MaxTailLen == 2

\*  a  f  "  /  *  {  }  #  blank  newline
SourceChars == {97, 102, 34, 47, 42, 123, 125, 35, 32, 10}

\*  "    """    /*    f"    f"{    f"{f"{
Openers ==
    {<<34>>, <<34, 34, 34>>, <<47, 42>>, <<102, 34>>, <<102, 34, 123>>,
     <<102, 34, 123, 102, 34, 123>>}

AllSources ==
    SeqsUpTo(SourceChars, MaxSourceLen)
        \cup {o \o t : o \in Openers, t \in SeqsUpTo(SourceChars, MaxTailLen)}

InitLexAll ==
    /\ build \in [arith : {"x86"}, oob : {"crash"}]
    /\ source \in AllSources
    /\ lexPython \in BOOLEAN
    /\ lpos = 0
    /\ indentStack = <<0>>
    /\ ltokens = <<>>
    /\ lstate = "loop"
    /\ indent = 0
    /\ CompIdle
    /\ FoldIdle
    /\ PreIdle

\* tokenize() runs on: a step that is enabled is taken
SpecLexAll == InitLexAll /\ [][NextLex]_vars /\ WF_vars(NextLex)

\* the sequence returned holds one END_OF_FILE, at its end
OneEofLast ==
    lstate = "done" =>
        /\ ltokens # <<>>
        /\ ltokens[Len(ltokens)].type = "END_OF_FILE"
        /\ CountType(ltokens, Len(ltokens), "END_OF_FILE") = 1

\* C15: Lexer::tokenize terminates on every finite source string in both
\* modes (unterminated strings, block comments and f-string interpolations
\* included) and the sequence it returns holds exactly one END_OF_FILE token,
\* which is the last token.
C15_TokenizeTerminatesOneEof == <>(lstate = "done") /\ []OneEofLast

\* tokenize() has returned on  f"{a  : the interpolation and the f-string are
\* both left open
C15_WitnessOpenInterpolation ==
    /\ lstate = "done"
    /\ source = <<102, 34, 123, 97>>
    /\ Len(ltokens) = 4
    /\ ltokens[4].type = "END_OF_FILE"

\* tokenize() has returned on  /*a  in Python mode: the comment is left open
C15_WitnessOpenComment ==
    /\ lstate = "done"
    /\ lexPython
    /\ source = <<47, 42, 97>>
    /\ lpos > Len(source)
    /\ Len(ltokens) = 1

(***************************************************************************)
(* preprocess (main.cpp:816-878).  A file is the string of its bytes; the  *)
(* file system maps the paths that can be opened to their contents.        *)
(***************************************************************************)
P_import == <<105, 109, 112, 111, 114, 116, 32>>   \* "import "
P_include == <<35, 105, 110, 99, 108, 117, 100, 101>>   \* "#include"
P_as == <<32, 97, 115, 32>>   \* " as "
P_from == <<32, 102, 114, 111, 109, 32>>   \* " from "
P_module == <<95, 95, 109, 111, 100, 117, 108, 101, 95, 95, 32>>   \* "__module__ "
P_endmodule == <<10, 95, 95, 101, 110, 100, 109, 111, 100, 117, 108, 101, 95, 95, 10>>   \* "\n__endmodule__\n"

\* line 846: the modules that are built in
BuiltinModules ==
    {<<109, 97, 116, 104>>,   \* math
     <<109, 97, 116, 104, 46, 104>>,   \* math.h
     <<99, 109, 97, 116, 104>>,   \* cmath
     <<115, 121, 115>>,   \* sys
     <<115, 116, 100, 108, 105, 98, 46, 104>>,   \* stdlib.h
     <<99, 115, 116, 100, 108, 105, 98>>,   \* cstdlib
     <<116, 105, 109, 101>>,   \* time
     <<116, 105, 109, 101, 46, 104>>,   \* time.h
     <<99, 116, 105, 109, 101>>,   \* ctime
     <<105, 111, 115, 116, 114, 101, 97, 109>>,   \* iostream
     <<115, 116, 100, 105, 111, 46, 104>>,   \* stdio.h
     <<118, 101, 99, 116, 111, 114>>,   \* vector
     <<115, 116, 114, 105, 110, 103>>,   \* string
     <<109, 97, 112>>}   \* map

\* lines 850-855: the names tried for a module, in this order
Attempts(mod) ==
    <<mod \o <<47, 95, 95, 105, 110, 105, 116, 95, 95, 46, 115, 111, 117, 108>>,   \* mod + "/__init__.soul"
      mod \o <<47, 95, 95, 105, 110, 105, 116, 95, 95, 46, 112, 121>>,   \* mod + "/__init__.py"
      mod \o <<46, 115, 111, 117, 108>>,   \* mod + ".soul"
      mod \o <<46, 112, 121>>,   \* mod + ".py"
      mod \o <<46, 104>>,   \* mod + ".h"
      mod \o <<46, 99>>,   \* mod + ".c"
      mod \o <<46, 99, 112, 112>>,   \* mod + ".cpp"
      mod \o <<46, 104, 112, 112>>,   \* mod + ".hpp"
      mod \o <<46, 99, 99>>,   \* mod + ".cc"
      mod \o <<46, 104, 104>>,   \* mod + ".hh"
      mod>>

\* std::string::find: the offset of the first sub in s, -1 for npos
Find(s, sub) ==
    LET hits == {i \in 0..(Len(s) - Len(sub)) : SubSeq(s, i + 1, i + Len(sub)) = sub}
    IN  IF hits = {} THEN -1 ELSE CHOOSE i \in hits : \A j \in hits : i <= j

\* find_first_of / find_last_of / find_first_not_of / find_last_not_of
FirstOf(s, chars) ==
    LET hits == {i \in 0..(Len(s) - 1) : s[i + 1] \in chars}
    IN  IF hits = {} THEN -1 ELSE CHOOSE i \in hits : \A j \in hits : i <= j
LastOf(s, chars) ==
    LET hits == {i \in 0..(Len(s) - 1) : s[i + 1] \in chars}
    IN  IF hits = {} THEN -1 ELSE CHOOSE i \in hits : \A j \in hits : i >= j
FirstNotOf(s, chars) ==
    LET hits == {i \in 0..(Len(s) - 1) : s[i + 1] \notin chars}
    IN  IF hits = {} THEN -1 ELSE CHOOSE i \in hits : \A j \in hits : i <= j
LastNotOf(s, chars) ==
    LET hits == {i \in 0..(Len(s) - 1) : s[i + 1] \notin chars}
    IN  IF hits = {} THEN -1 ELSE CHOOSE i \in hits : \A j \in hits : i >= j

RECURSIVE SplitLines(_)
\* the lines std::getline reads from a stream over s (line 822)
SplitLines(s) ==
    IF s = <<>> THEN <<>>
    ELSE LET nl == Find(s, <<10>>)
         IN  IF nl = -1 THEN <<s>>
             ELSE <<SubSeq(s, 1, nl)>> \o SplitLines(SubSeq(s, nl + 2, Len(s)))

\* lines 829-833
ModOfImport(line) ==
    Bind(SubSeq(line, 8, Len(line)), LAMBDA mod :
    Bind(Find(mod, P_as), LAMBDA asPos :
    Bind(Find(mod, P_from), LAMBDA fromPos :
        IF asPos # -1 THEN SubSeq(mod, 1, asPos)
        ELSE IF fromPos # -1 THEN SubSeq(mod, fromPos + 7, Len(mod))
        ELSE mod)))

\* lines 835-838: [ok, mod]; not ok is the continue of line 838
ModOfInclude(line) ==
    Bind(FirstOf(line, {34, 60}), LAMBDA start :
    Bind(LastOf(line, {34, 62}), LAMBDA end :
        IF start # -1 /\ end # -1 /\ end > start
        THEN [ok |-> TRUE, mod |-> SubSeq(line, start + 2, end)]
        ELSE [ok |-> FALSE, mod |-> <<>>]))

\* lines 840-844
StripModule(mod) ==
    LET NotSpace(c) == ~isspace(c)
    IN  Bind(FirstNotOf(mod, {32, 9}), LAMBDA first :
        Bind(IF first # -1 THEN SubSeq(mod, first + 1, Len(mod)) ELSE mod, LAMBDA m1 :
        Bind(LastNotOf(m1, {32, 9}), LAMBDA last :
        Bind(IF last # -1 THEN SubSeq(m1, 1, last + 1) ELSE m1, LAMBDA m2 :
            SelectSeq(m2, NotSpace)))))

\* line 861
FullPath(path, tryName) == IF path = <<>> THEN tryName ELSE path \o <<47>> \o tryName

S_curdir == <<46>>

\* lines 848-861: every fullPath tried, in the order of the two for loops
Candidates(mod, currentDir) ==
    Bind(<<currentDir, S_curdir>> \o includePaths, LAMBDA searchPaths :
    Bind(Attempts(mod), LAMBDA attempts :
    Bind(Len(attempts), LAMBDA n :
        [k \in 1..(Len(searchPaths) * n) |->
            [path |-> searchPaths[((k - 1) \div n) + 1],
             fullPath |-> FullPath(searchPaths[((k - 1) \div n) + 1],
                                   attempts[((k - 1) % n) + 1])]])))

\* a preprocessor that compares a path with the last included file only
AlreadyIncluded_LastOnly(fullPath, included) ==
    included # <<>> /\ included[Len(included)] = fullPath

\* line 863
AlreadyIncluded(fullPath, included) ==
    \E i \in 1..Len(included) : included[i] = fullPath

\* line 866: std::ifstream imp(fullPath); imp.good()
CanOpen(fullPath) == fullPath \in DOMAIN files

RECURSIVE preprocess(_, _, _), PreLines(_, _, _, _, _), ProcessLine(_, _, _, _)

\* lines 823-875: one turn of the while of line 822, on the local result and
\* the global globalIncludedFiles
ProcessLine(line, currentDir, res, included) ==
    LET isImport == Find(line, P_import) = 0
        isInclude == Find(line, P_include) = 0
        same == [result |-> res, included |-> included]
        raw == IF isImport THEN [ok |-> TRUE, mod |-> ModOfImport(line)]
               ELSE ModOfInclude(line)
        mod == StripModule(raw.mod)
        cands == Candidates(mod, currentDir)
        hits == {k \in DOMAIN cands :
                    AlreadyIncluded(cands[k].fullPath, included) \/ CanOpen(cands[k].fullPath)}
        c == cands[CHOOSE k \in hits : \A j \in hits : k <= j]
        sub == preprocess(files[c.fullPath], c.path, Append(included, c.fullPath))
    IN  IF ~(isImport \/ isInclude)
        THEN [result |-> res \o line \o <<10>>, included |-> included]
        ELSE IF ~raw.ok \/ mod \in BuiltinModules \/ hits = {} THEN same
        ELSE IF AlreadyIncluded(c.fullPath, included) THEN same
        ELSE [result |-> res \o (IF isImport
                                 THEN P_module \o mod \o <<10>> \o sub.result \o P_endmodule
                                 ELSE sub.result \o <<10>>),
              included |-> sub.included]

PreLines(lines, i, currentDir, res, included) ==
    IF i > Len(lines) THEN [result |-> res, included |-> included]
    ELSE LET r == ProcessLine(lines[i], currentDir, res, included)
         IN  PreLines(lines, i + 1, currentDir, r.result, r.included)

\* preprocess(source, currentDir, includePaths) called with globalIncludedFiles =
\* included: [result, included], the string returned and the global afterwards
preprocess(src, currentDir, included) == PreLines(SplitLines(src), 1, currentDir, <<>>, included)

(***************************************************************************)
(* The call preprocess(source, ".", includePaths) of line 915, one line of *)
(* the root source at a time; the calls nested in it are taken whole.      *)
(***************************************************************************)
PreLine ==
    /\ pstate = "reading"
    /\ lineIdx <= Len(rootLines)
    /\ LET r == ProcessLine(rootLines[lineIdx], S_curdir, result, globalIncludedFiles)
       IN  /\ result' = r.result
           /\ globalIncludedFiles' = r.included
    /\ lineIdx' = lineIdx + 1
    /\ UNCHANGED <<build, files, includePaths, rootLines, pstate, frames, compVars, foldVars,
                   lexVars>>

\* line 877
PreReturn ==
    /\ pstate = "reading"
    /\ lineIdx > Len(rootLines)
    /\ pstate' = "done"
    /\ UNCHANGED <<build, files, includePaths, rootLines, lineIdx, globalIncludedFiles,
                   result, frames, compVars, foldVars, lexVars>>

NextPre == PreLine \/ PreReturn

(***************************************************************************)
(* File systems and root sources: modules B (in "." and in "lib") and C    *)
(* (in "." or in "lib"); C may import or include B; the root source has up *)
(* to MaxRootLines lines, each a directive for B or C or a plain line.     *)
(***************************************************************************)
MaxRootLines == 3

S_lib == <<108, 105, 98>>
Path_B == <<46, 47, 66, 46, 115, 111, 117, 108>>                \* ./B.soul
Path_libB == <<108, 105, 98, 47, 66, 46, 115, 111, 117, 108>>   \* lib/B.soul
Path_C == <<46, 47, 67, 46, 115, 111, 117, 108>>                \* ./C.soul
Path_libC == <<108, 105, 98, 47, 67, 46, 115, 111, 117, 108>>   \* lib/C.soul

Line_importB == <<105, 109, 112, 111, 114, 116, 32, 66>>              \* import B
Line_importBas == <<105, 109, 112, 111, 114, 116, 32, 66, 32, 97, 115, 32, 113>>  \* import B as q
Line_includeB == <<35, 105, 110, 99, 108, 117, 100, 101, 32, 34, 66, 46, 115, 111, 117, 108, 34>>  \* #include "B.soul"
Line_importC == <<105, 109, 112, 111, 114, 116, 32, 67>>              \* import C
Line_r == <<114>>

NoFiles == [p \in {} |-> <<>>]

\* C:  import B / c,   #include "B.soul" / c,   c
ContentsOfC ==
    {Line_importB \o <<10, 99>>, Line_includeB \o <<10, 99>>, <<99>>}

FileSystems ==
    {b1 @@ b2 @@ c :
        b1 \in {NoFiles, Path_B :> <<98>>},
        b2 \in {NoFiles, Path_libB :> <<66>>},
        c \in {NoFiles} \cup {p :> t : p \in {Path_C, Path_libC}, t \in ContentsOfC}}

RootLineChoices == {Line_importB, Line_importBas, Line_includeB, Line_importC, Line_r}

RootSources == {JoinLines(ls) : ls \in SeqsUpTo(RootLineChoices, MaxRootLines) \ {<<>>}}

InitPre ==
    /\ build \in [arith : {"x86"}, oob : {"crash"}]
    /\ files \in FileSystems
    /\ includePaths \in {<<>>, <<S_lib>>}
    /\ rootLines \in {SplitLines(s) : s \in RootSources}
    /\ lineIdx = 1
    /\ globalIncludedFiles = <<>>
    /\ result = <<>>
    /\ pstate = "reading"
    /\ frames = <<>>
    /\ CompIdle
    /\ FoldIdle
    /\ LexIdle

SpecPre == InitPre /\ [][NextPre]_vars

IncludedSet == {globalIncludedFiles[i] : i \in 1..Len(globalIncludedFiles)}

\* every file ends with a line that no other file and no root source has
LastLineOf(p) == SplitLines(files[p])[Len(SplitLines(files[p]))]

CountLine(s, line) ==
    LET ls == SplitLines(s) IN Cardinality({i \in 1..Len(ls) : ls[i] = line})

IsDirective(line) == Find(line, P_import) = 0 \/ Find(line, P_include) = 0

\* the file a directive stands for: the first path, in the order of the search,
\* that can be opened; <<>> when there is none
DirectiveTarget(line, currentDir) ==
    LET raw == IF Find(line, P_import) = 0 THEN [ok |-> TRUE, mod |-> ModOfImport(line)]
               ELSE ModOfInclude(line)
        cands == Candidates(StripModule(raw.mod), currentDir)
        hits == {k \in DOMAIN cands : CanOpen(cands[k].fullPath)}
    IN  IF ~raw.ok \/ hits = {} THEN [path |-> <<>>, fullPath |-> <<>>]
        ELSE cands[CHOOSE k \in hits : \A j \in hits : k <= j]

RECURSIVE OwnLines(_, _)
\* the lines of ls from i on that are no directives, each with its newline
OwnLines(ls, i) ==
    IF i > Len(ls) THEN <<>>
    ELSE (IF IsDirective(ls[i]) THEN <<>> ELSE ls[i] \o <<10>>) \o OwnLines(ls, i + 1)

\* what a step on a root line does when the line is a directive for a file
\* that is included already (nothing), and when it is a directive for a new
\* file all of whose own directives are for files included already (the file's
\* own lines, once)
RepeatedDirectiveAddsNothing ==
    LET line == rootLines[lineIdx]
        t == DirectiveTarget(line, S_curdir)
        ls == SplitLines(files[t.fullPath])
        isImport == Find(line, P_import) = 0
        mod == StripModule(IF isImport THEN ModOfImport(line) ELSE ModOfInclude(line).mod)
    IN  (lineIdx' = lineIdx + 1 /\ IsDirective(line) /\ t.fullPath # <<>>) =>
            IF t.fullPath \in IncludedSet
            THEN result' = result /\ globalIncludedFiles' = globalIncludedFiles
            ELSE (\A i \in 1..Len(ls) :
                     IsDirective(ls[i]) =>
                        DirectiveTarget(ls[i], t.path).fullPath \in IncludedSet \cup {t.fullPath})
                 => /\ globalIncludedFiles' = Append(globalIncludedFiles, t.fullPath)
                    /\ result' = result \o
                          (IF isImport
                           THEN P_module \o mod \o <<10>> \o OwnLines(ls, 1) \o P_endmodule
                           ELSE OwnLines(ls, 1) \o <<10>>)

IncludedOnce ==
    /\ \A i \in 1..Len(globalIncludedFiles) : \A j \in 1..Len(globalIncludedFiles) :
           globalIncludedFiles[i] = globalIncludedFiles[j] => i = j
    /\ \A p \in DOMAIN files :
           CountLine(result, LastLineOf(p)) = IF p \in IncludedSet THEN 1 ELSE 0

\* C6: however many import or #include directives lead to a file (directly or
\* through another module), the string preprocess builds holds the file's
\* content exactly once, a directive for a file that is included already adds
\* no bytes, and globalIncludedFiles holds the file's path exactly once.
C6_IdempotentImport ==
    []IncludedOnce /\ [][RepeatedDirectiveAddsNothing]_vars

\* the root imports B, then C, which imports B, then B again
C6_WitnessDiamondAndRepeat ==
    /\ pstate = "done"
    /\ rootLines = <<Line_importB, Line_importC, Line_importBas>>
    /\ Path_C \in DOMAIN files
    /\ files[Path_C] = Line_importB \o <<10, 99>>
    /\ globalIncludedFiles = <<Path_B, Path_C>>
    /\ CountLine(result, <<98>>) = 1

\* a directive that reaches the search of lines 848-875 and for which no
\* fullPath of any search path is in the included set or can be opened
UnresolvedDirective(line, currentDir, included) ==
    LET raw == IF Find(line, P_import) = 0 THEN [ok |-> TRUE, mod |-> ModOfImport(line)]
               ELSE ModOfInclude(line)
        mod == StripModule(raw.mod)
        cands == Candidates(mod, currentDir)
    IN  /\ IsDirective(line)
        /\ raw.ok
        /\ mod \notin BuiltinModules
        /\ \A k \in DOMAIN cands :
              ~AlreadyIncluded(cands[k].fullPath, included) /\ ~CanOpen(cands[k].fullPath)

\* what a turn of the loop adds to the output, for the three kinds of line
UnresolvedLineOutput ==
    LET line == rootLines[lineIdx]
    IN  (lineIdx' = lineIdx + 1) =>
            IF ~IsDirective(line) THEN result' = result \o line \o <<10>>
            ELSE IF ~UnresolvedDirective(line, S_curdir, globalIncludedFiles) THEN TRUE
            ELSE IF Find(line, P_import) = 0 THEN result' = result
            ELSE /\ Len(result') > Len(result)
                 /\ SubSeq(result', 1, Len(result)) = result
                 /\ Find(SubSeq(result', Len(result) + 1, Len(result')), line) # -1

\* C13: for an unresolved directive (no candidate path of any search path
\* opens and none is in the included set) an #include line appears in the
\* output of preprocess as a comment carrying the original line and an import
\* line contributes no bytes; every other line of the source is kept.
C13_UnresolvedIncludeKeptAsComment == [][UnresolvedLineOutput]_vars

\* the root source r / #include "B.soul" / r has been read and no B.soul exists
C13_WitnessUnresolvedInclude ==
    /\ pstate = "done"
    /\ rootLines = <<Line_r, Line_includeB, Line_r>>
    /\ DOMAIN files = {}
    /\ globalIncludedFiles = <<>>
    /\ result = <<114, 10, 114, 10>>

(***************************************************************************)
(* Root sources with the shapes of an import of B: at the start of a line  *)
(* or after blanks, plain, with an alias, and as from B import x.          *)
(***************************************************************************)
MaxShapeLines == 2

Line_fromB == <<102, 114, 111, 109, 32, 66, 32, 105, 109, 112, 111, 114, 116, 32, 120>>  \* from B import x
Line_indentedImportB == <<32, 32>> \o Line_importB      \* two blanks, import B
Line_indentedImportBas == <<9>> \o Line_importBas       \* a tab, import B as q

ImportShapesOfB ==
    {Line_importB, Line_importBas, Line_fromB, Line_indentedImportB, Line_indentedImportBas}

ShapeSources ==
    {JoinLines(ls) : ls \in SeqsUpTo(ImportShapesOfB \cup {Line_r}, MaxShapeLines) \ {<<>>}}

InitPreShapes ==
    /\ build \in [arith : {"x86"}, oob : {"crash"}]
    /\ files \in FileSystems
    /\ includePaths \in {<<>>, <<S_lib>>}
    /\ rootLines \in {SplitLines(s) : s \in ShapeSources}
    /\ lineIdx = 1
    /\ globalIncludedFiles = <<>>
    /\ result = <<>>
    /\ pstate = "reading"
    /\ frames = <<>>
    /\ CompIdle
    /\ FoldIdle
    /\ LexIdle

SpecPreShapes == InitPreShapes /\ [][NextPre]_vars

\* a turn of the loop on a line of one of the shapes does what the directive
\* import B does: the same output and the same included set
ShapeResolvesB ==
    LET line == rootLines[lineIdx]
        r == ProcessLine(Line_importB, S_curdir, result, globalIncludedFiles)
    IN  (lineIdx' = lineIdx + 1 /\ line \in ImportShapesOfB) =>
            result' = r.result /\ globalIncludedFiles' = r.included

\* C14: preprocess recognizes a directive on any line whose first
\* non-whitespace content is import NAME, import NAME as ALIAS or
\* from NAME import ..., and in each shape the module it resolves is NAME.
C14_ImportShapesResolveName == [][ShapeResolvesB]_vars

\* the root source `from B import x` has been read with ./B.soul present
C14_WitnessFromImport ==
    /\ pstate = "done"
    /\ rootLines = <<Line_fromB>>
    /\ Path_B \in DOMAIN files
    /\ result = Line_fromB \o <<10>>
    /\ globalIncludedFiles = <<>>

\* the root source `import B as q` has been read with ./B.soul present
C14_WitnessAlias ==
    /\ pstate = "done"
    /\ rootLines = <<Line_importBas>>
    /\ globalIncludedFiles = <<Path_B>>

(***************************************************************************)
(* Python sources, tokenized by the Lexer in Python mode and then compiled *)
(* as main() does: preprocess, Lexer::tokenize, Compiler::compile           *)
(***************************************************************************)
\*  x    x == 1    (x == 1)
PyConds ==
    {<<120>>,
     <<120, 32, 61, 61, 32, 49>>,
     <<40, 120, 32, 61, 61, 32, 49, 41>>}

\* the body after the colon: on the same line, or as an indented block of
\* one or two lines (a tab or four blanks)
PyBodies ==
    {<<32, 121, 32, 61, 32, 50>>,
     <<10, 9, 121, 32, 61, 32, 50>>,
     <<10, 32, 32, 32, 32, 121, 32, 61, 32, 50>>,
     <<10, 9, 121, 32, 61, 32, 50, 10, 9, 121, 32, 61, 32, 50>>}

\*  z = 3
PyFollow == <<122, 32, 61, 32, 51>>

\*  if COND:BODY<newline>z = 3
PyIfSource(cond, body) == <<105, 102, 32>> \o cond \o <<58>> \o body \o <<10>> \o PyFollow

PyIfSources == {PyIfSource(c, b) : c \in PyConds, b \in PyBodies}

\* lines 915-919 of main() on a source file of Python mode
TokensOfSource(s) == tokenize(preprocess(s, S_curdir, <<>>).result, TRUE)

PyIfInputs == [tokens : {TokensOfSource(s) : s \in PyIfSources}, python : {TRUE}]

InitPyIf == InitCompileOn(PyIfInputs)

SpecPyIf == InitPyIf /\ [][NextCompile]_vars

\* the offsets of the buffer at which the code of `z = 3` starts
FollowStarts(bc) ==
    {i \in 0..(Len(bc) - 8) :
        /\ At(bc, i) = PUSH_INT /\ OperandAt(bc, i) = 3
        /\ SubSeq(bc, i + 6, i + 8) = <<STORE, 1, 122>>}

\* the offsets of the buffer at which a JZ instruction starts
JzStarts(bc) == {i \in InstrStarts(bc) : At(bc, i) = JZ}

\* C12: in Python mode, for `if cond:` with its body after the colon (on the
\* same line or as an indented block) followed by a dedented statement S, the
\* operand of the JZ emitted for the condition is the offset of the first
\* opcode of S.
C12_PythonIfJumpsPastBody ==
    Returned =>
        \A j \in JzStarts(bytecode) : OperandAt(bytecode, j) \in FollowStarts(bytecode)

\* compile() returned a buffer with the JZ of the condition and the code of S
C12_WitnessIfCompiled ==
    /\ Returned
    /\ JzStarts(bytecode) # {}
    /\ FollowStarts(bytecode) # {}

(***************************************************************************)
(* for loops, from source text: with a braced body (brace mode) and with   *)
(* an indented body after a colon (Python mode)                            *)
(***************************************************************************)
\*  for x in xs      for (x in xs)
ForHeads ==
    {<<102, 111, 114, 32, 120, 32, 105, 110, 32, 120, 115>>,
     <<102, 111, 114, 32, 40, 120, 32, 105, 110, 32, 120, 115, 41>>}

\*  { y = 2; }      { y = 2; y = 2; }
ForBracedBodies ==
    {<<32, 123, 32, 121, 32, 61, 32, 50, 59, 32, 125>>,
     <<32, 123, 32, 121, 32, 61, 32, 50, 59, 32, 121, 32, 61, 32, 50, 59, 32, 125>>}

\* a colon and an indented block of one or two lines  y = 2
ForIndentedBodies ==
    {<<58, 10, 9, 121, 32, 61, 32, 50>>,
     <<58, 10, 32, 32, 32, 32, 121, 32, 61, 32, 50, 10, 32, 32, 32, 32, 121, 32, 61, 32, 50>>}

\*  HEAD BODY <newline> z = 3
ForSource(head, body) == head \o body \o <<10>> \o PyFollow

ForInputs ==
    {[tokens |-> tokenize(preprocess(ForSource(h, b), S_curdir, <<>>).result, FALSE),
      python |-> FALSE] : h \in ForHeads, b \in ForBracedBodies}
    \cup {[tokens |-> TokensOfSource(ForSource(h, b)), python |-> TRUE] :
              h \in ForHeads, b \in ForIndentedBodies}

InitFor == InitCompileOn(ForInputs)

SpecFor == InitFor /\ [][NextCompile]_vars

ForIterOffsets == OffsetsFrom(bytecode, 0, FOR_ITER)

\* the code of the loop body: PUSH_INT 2, STORE y for each  y = 2  of the source
BodyCode ==
    LET one == <<PUSH_INT, 0, 0, 0, 2, STORE, 1, 121>>
        n == Cardinality({i \in 1..Len(tokens) : tokens[i].value = <<121>>})
    IN  IF n = 2 THEN one \o one ELSE one

\* the four bytes emitInt and patchInt write for v
OperandBytes(v) == <<ByteOf(v, 3), ByteOf(v, 2), ByteOf(v, 1), ByteOf(v, 0)>>

\* the layout of the loop whose FOR_ITER is at offset f, from the iterable on
ForLayout(f) ==
    <<LOAD, 2, 120, 115>>
        \o <<FOR_ITER>> \o OperandBytes(f + 5 + 3 + Len(BodyCode) + 5)
        \o <<STORE, 1, 120>> \o BodyCode
        \o <<JMP>> \o OperandBytes(f)

\* C24: for `for var in iterable body` the buffer holds the iterable code,
\* FOR_ITER with its exit operand, STORE var, the code of the whole loop body
\* and JMP to the offset of the FOR_ITER opcode, and the exit operand is the
\* offset of the first byte after that JMP, with a braced body and with an
\* indented body after `for var in iterable:` in Python mode.
C24_ForLoopLayout ==
    Returned =>
        /\ Len(ForIterOffsets) = 1
        /\ HasBytesAt(bytecode, ForIterOffsets[1] - 4, ForLayout(ForIterOffsets[1]))

\* compile() has returned on a for loop of Python mode with an indented body
C24_WitnessIndentedFor ==
    /\ Returned
    /\ pythonMode
    /\ Len(ForIterOffsets) = 1
    /\ \E i \in 1..Len(tokens) : tokens[i].type = "INDENT"

(***************************************************************************)
(* Layout sources: up to MaxLayoutLines lines, each some blanks and then   *)
(* nothing, a name, { or }.                                                *)
(***************************************************************************)
MaxLayoutLines == 3

LayoutIndents == {<<>>, <<32, 32>>, <<32, 32, 32, 32>>}

\*  (nothing)    a    {    }
LayoutBodies == {<<>>, <<97>>, <<123>>, <<125>>}

LayoutLines == {i \o b : i \in LayoutIndents, b \in LayoutBodies}

LayoutSources == {JoinLines(ls) : ls \in SeqsUpTo(LayoutLines, MaxLayoutLines) \ {<<>>}}

InitLayout ==
    /\ build \in [arith : {"x86"}, oob : {"crash"}]
    /\ source \in LayoutSources
    /\ lexPython \in BOOLEAN
    /\ lpos = 0
    /\ indentStack = <<0>>
    /\ ltokens = <<>>
    /\ lstate = "loop"
    /\ indent = 0
    /\ CompIdle
    /\ FoldIdle
    /\ PreIdle

SpecLayout == InitLayout /\ [][NextLex]_vars

\* the number of { still open behind the first k tokens
RECURSIVE BraceDepth(_, _)
BraceDepth(toks, k) ==
    IF k = 0 THEN 0
    ELSE LET d == BraceDepth(toks, k - 1)
         IN  IF toks[k].type = "LBRACE" THEN d + 1
             ELSE IF toks[k].type = "RBRACE" /\ d > 0 THEN d - 1
             ELSE d

\* token k lies between a { and the } that matches it
InsideBraces(toks, k) ==
    \E i \in 1..(k - 1), j \in (k + 1)..Len(toks) :
        /\ toks[i].type = "LBRACE"
        /\ toks[j].type = "RBRACE"
        /\ BraceDepth(toks, j) = BraceDepth(toks, i - 1)
        /\ \A m \in i..(j - 1) : BraceDepth(toks, m) > BraceDepth(toks, i - 1)

\* C25: in Python mode no INDENT or DEDENT token is emitted for the lines
\* that lie between a { and its matching }.
C25_NoLayoutTokensInsideBraces ==
    lexPython =>
        \A k \in 1..Len(ltokens) :
            ltokens[k].type \in {"INDENT", "DEDENT"} => ~InsideBraces(ltokens, k)

\* tokenize has returned in Python mode on a source with { and } on lines of
\* their own and a line between them
C25_WitnessLineInsideBraces ==
    /\ lstate = "done"
    /\ lexPython
    /\ \E i \in 1..Len(ltokens) :
          /\ ltokens[i].type = "LBRACE"
          /\ \E j \in (i + 2)..Len(ltokens) :
                /\ ltokens[j].type = "RBRACE"
                /\ \E k \in (i + 1)..(j - 1) : ltokens[k].type = "IDENTIFIER"

\* the lines of the source, and the source without its line k
SourceLines == SplitLines(source)
WithoutLine(ls, k) == SubSeq(ls, 1, k - 1) \o SubSeq(ls, k + 1, Len(ls))

\* a line of blanks and tabs only, and the indentation tokenize measures
IsBlankLine(line) == BlanksEnd(NewLexer(line, TRUE)) = Len(line)
IndentOf(line) == BlanksWidth(NewLexer(line, TRUE))

\* line k is empty or white space between two code lines of one indentation
BlankBetweenEqual(ls, k) ==
    /\ 1 < k /\ k < Len(ls)
    /\ IsBlankLine(ls[k])
    /\ ~IsBlankLine(ls[k - 1]) /\ ~IsBlankLine(ls[k + 1])
    /\ IndentOf(ls[k - 1]) = IndentOf(ls[k + 1])

\* C30: in Python mode an empty line or a line of white space only between
\* two code lines of the same indentation emits no INDENT and no DEDENT and
\* leaves the indent stack as it is: the tokens returned are those of the
\* source without that line, so the line does not close an indented block.
C30_BlankLineEmitsNothing ==
    (lstate = "done" /\ lexPython) =>
        \A k \in 1..Len(SourceLines) :
            BlankBetweenEqual(SourceLines, k) =>
                ltokens = tokenize(JoinLines(WithoutLine(SourceLines, k)), TRUE)

\* tokenize has returned in Python mode on an indented line, an empty line
\* and a line of the same indentation
C30_WitnessBlankLineInBlock ==
    /\ lstate = "done"
    /\ lexPython
    /\ Len(SourceLines) = 3
    /\ BlankBetweenEqual(SourceLines, 2)
    /\ SourceLines[2] = <<>>
    /\ IndentOf(SourceLines[1]) = 4

(***************************************************************************)
(* String literals: a quote, up to MaxPieces pieces (a letter, an escaped  *)
(* quote, an escaped n), a quote, and what follows the literal             *)
(***************************************************************************)
MaxPieces == 3

\*  a    \"    \n
LiteralPieces == {<<97>>, <<92, 34>>, <<92, 110>>}

\*  (nothing)    ;    +b    <newline><blank>b
LiteralRests == {<<>>, <<59>>, <<43, 98>>, <<10, 32, 98>>}

LiteralSources ==
    {<<34>> \o Concat(ps) \o <<34>> \o r :
        ps \in SeqsUpTo(LiteralPieces, MaxPieces), r \in LiteralRests}

InitLiteral ==
    /\ build \in [arith : {"x86"}, oob : {"crash"}]
    /\ source \in LiteralSources
    /\ lexPython \in BOOLEAN
    /\ lpos = 0
    /\ indentStack = <<0>>
    /\ ltokens = <<>>
    /\ lstate = "loop"
    /\ indent = 0
    /\ CompIdle
    /\ FoldIdle
    /\ PreIdle

SpecLiteral == InitLiteral /\ [][NextLex]_vars

\* the offset of the first quote behind the opening one that has no backslash
\* in front of it
ClosingQuote ==
    CHOOSE j \in 1..(Len(source) - 1) :
        /\ CharAt(source, j) = 34 /\ CharAt(source, j - 1) # 92
        /\ \A k \in 1..(j - 1) : ~(CharAt(source, k) = 34 /\ CharAt(source, k - 1) # 92)

\* the literal holds a backslash followed by a quote
HasEscapedQuote ==
    \E k \in 1..(ClosingQuote - 2) : CharAt(source, k) = 92 /\ CharAt(source, k + 1) = 34

\* C26: a plain string literal ends at the first quote that has no backslash
\* in front of it: for a literal with an escaped quote readString returns one
\* STRING token with the text up to that quote, and lexing goes on behind it.
C26_StringEndsAtUnescapedQuote ==
    (HasEscapedQuote /\ ltokens # <<>>) =>
        /\ ltokens[1] = Str(Text(source, 1, ClosingQuote))
        /\ (Len(ltokens) = 1 /\ lstate = "loop") => lpos = ClosingQuote + 1

\* readString has returned the first token of a literal with an escaped quote
C26_WitnessEscapedQuoteRead ==
    /\ HasEscapedQuote
    /\ Len(ltokens) = 1 /\ lstate = "loop"
    /\ ltokens[1].type = "STRING"

(***************************************************************************)
(* preprocess with the calls nested in it, one turn of a getline loop at a *)
(* time: frames holds the locals of every call in progress (lines 819-822  *)
(* and the arguments), the outermost call first.                           *)
(***************************************************************************)
MaxFrames == 5

\* what lines 823-864 find for a line: a plain line, a directive that adds
\* nothing, or a directive for a file to be expanded
Resolve(line, currentDir, included) ==
    LET none(kind) == [kind |-> kind, isImport |-> FALSE, mod |-> <<>>, path |-> <<>>,
                       fullPath |-> <<>>]
    IN  Bind(Find(line, P_import) = 0, LAMBDA isImport :
        Bind(Find(line, P_include) = 0, LAMBDA isInclude :
        IF ~(isImport \/ isInclude) THEN none("plain")
        ELSE
        Bind(IF isImport THEN [ok |-> TRUE, mod |-> ModOfImport(line)]
             ELSE ModOfInclude(line), LAMBDA raw :
        IF ~raw.ok THEN none("skip")
        ELSE
        Bind(StripModule(raw.mod), LAMBDA mod :
        Bind(Candidates(mod, currentDir), LAMBDA cands :
        Bind({k \in DOMAIN cands :
                 AlreadyIncluded(cands[k].fullPath, included) \/ CanOpen(cands[k].fullPath)},
             LAMBDA hits :
            IF mod \in BuiltinModules \/ hits = {} THEN none("skip")
            ELSE Bind(cands[CHOOSE k \in hits : \A j \in hits : k <= j], LAMBDA c :
                    IF AlreadyIncluded(c.fullPath, included) THEN none("skip")
                    ELSE [kind |-> "enter", isImport |-> isImport, mod |-> mod,
                          path |-> c.path, fullPath |-> c.fullPath])))))))

\* a preprocessor that does not note the files it expands
RecordIncluded_Never(included, fullPath) == included

\* line 867: globalIncludedFiles.push_back(fullPath), before the file is expanded
RecordIncluded(included, fullPath) == Append(included, fullPath)

\* the locals of a call of preprocess on the text src, made for the file
\* fullPath by a directive of module mod
NewFrame(src, currentDir, isImport, mod, fullPath) ==
    [lines |-> SplitLines(src), idx |-> 1, dir |-> currentDir, res |-> <<>>,
     isImport |-> isImport, mod |-> mod, file |-> fullPath]

Top == frames[Len(frames)]
TopLine == Resolve(Top.lines[Top.idx], Top.dir, globalIncludedFiles)

\* lines 822-824 and 875, or a directive that adds nothing (lines 838, 846, 864)
NestLine ==
    /\ pstate = "reading" /\ frames # <<>>
    /\ Top.idx <= Len(Top.lines)
    /\ \E t \in {TopLine} :
           /\ t.kind # "enter"
           /\ frames' = [frames EXCEPT ![Len(frames)] =
                            [@ EXCEPT !.idx = @ + 1,
                                      !.res = IF t.kind = "plain"
                                              THEN @ \o Top.lines[Top.idx] \o <<10>> ELSE @]]
    /\ UNCHANGED <<build, files, includePaths, rootLines, lineIdx, globalIncludedFiles,
                   result, pstate, compVars, foldVars, lexVars>>

\* lines 865-870: the file opens and is not included yet; preprocess is called
\* on its content
NestEnter ==
    /\ pstate = "reading" /\ frames # <<>>
    /\ Top.idx <= Len(Top.lines)
    /\ Len(frames) < MaxFrames
    /\ \E t \in {TopLine} :
           /\ t.kind = "enter"
           /\ globalIncludedFiles' = RecordIncluded(globalIncludedFiles, t.fullPath)
           /\ frames' = Append([frames EXCEPT ![Len(frames)].idx = @ + 1],
                               NewFrame(files[t.fullPath], t.path, t.isImport, t.mod,
                                        t.fullPath))
    /\ UNCHANGED <<build, files, includePaths, rootLines, lineIdx, result, pstate,
                   compVars, foldVars, lexVars>>

\* line 877 of a nested call and the rest of line 869 or 870 in its caller
NestReturn ==
    /\ pstate = "reading" /\ Len(frames) > 1
    /\ Top.idx > Len(Top.lines)
    /\ frames' = [SubSeq(frames, 1, Len(frames) - 1) EXCEPT ![Len(frames) - 1].res =
                     @ \o (IF Top.isImport
                           THEN P_module \o Top.mod \o <<10>> \o Top.res \o P_endmodule
                           ELSE Top.res \o <<10>>)]
    /\ UNCHANGED <<build, files, includePaths, rootLines, lineIdx, globalIncludedFiles,
                   result, pstate, compVars, foldVars, lexVars>>

\* line 877 of the outermost call: main() has the preprocessed source (line 915)
NestDone ==
    /\ pstate = "reading" /\ Len(frames) = 1
    /\ Top.idx > Len(Top.lines)
    /\ result' = Top.res
    /\ pstate' = "done"
    /\ frames' = <<>>
    /\ UNCHANGED <<build, files, includePaths, rootLines, lineIdx, globalIncludedFiles,
                   compVars, foldVars, lexVars>>

NextNested == NestLine \/ NestEnter \/ NestReturn \/ NestDone

(***************************************************************************)
(* File systems with cycles: B imports C, B or nothing; C is absent or     *)
(* imports or includes B, imports C or nothing; a copy of C may lie in lib *)
(***************************************************************************)
MaxCycleRootLines == 2

\*  import C / b     import B / b     b
CycleContentsOfB == {Line_importC \o <<10, 98>>, Line_importB \o <<10, 98>>, <<98>>}

\*  import B / c     #include "B.soul" / c     import C / c     c
CycleContentsOfC ==
    {Line_importB \o <<10, 99>>, Line_includeB \o <<10, 99>>, Line_importC \o <<10, 99>>, <<99>>}

CycleFileSystems ==
    {(Path_B :> b) @@ c @@ l :
        b \in CycleContentsOfB,
        c \in {NoFiles} \cup {Path_C :> t : t \in CycleContentsOfC},
        l \in {NoFiles, Path_libC :> Line_importB \o <<10, 67>>}}

CycleRootSources ==
    {JoinLines(ls) :
        ls \in SeqsUpTo({Line_importB, Line_importC, Line_r}, MaxCycleRootLines) \ {<<>>}}

InitNested ==
    /\ build \in [arith : {"x86"}, oob : {"crash"}]
    /\ files \in CycleFileSystems
    /\ includePaths \in {<<>>, <<S_lib>>}
    /\ rootLines \in {SplitLines(s) : s \in CycleRootSources}
    /\ lineIdx = 1
    /\ globalIncludedFiles = <<>>
    /\ result = <<>>
    /\ pstate = "reading"
    /\ frames = <<NewFrame(JoinLines(rootLines), S_curdir, FALSE, <<>>, <<>>)>>
    /\ CompIdle
    /\ FoldIdle
    /\ LexIdle

\* the process runs preprocess on its one thread: a step that can be taken is
\* taken
SpecNested == InitNested /\ [][NextNested]_vars /\ WF_vars(NextNested)

\* no path is noted twice and no file is being expanded twice
ExpandedOnce ==
    /\ \A i, j \in 1..Len(globalIncludedFiles) :
           globalIncludedFiles[i] = globalIncludedFiles[j] => i = j
    /\ \A i, j \in 2..Len(frames) : frames[i].file = frames[j].file => i = j

\* the nested calls are at most as many as there are paths
DepthBounded == Len(frames) - 1 <= Cardinality(DOMAIN files)

\* C29: preprocess terminates for every finite set of files, cyclic imports
\* and a file that imports itself included: every path is expanded at most
\* once, the depth of the recursion is at most the number of distinct paths,
\* and the outermost call returns.
C29_PreprocessTerminates ==
    /\ [](ExpandedOnce /\ DepthBounded)
    /\ <>(pstate = "done")

\* preprocess has returned on B importing C and C importing B, each expanded
\* once
C29_WitnessMutualImport ==
    /\ pstate = "done"
    /\ files[Path_B] = Line_importC \o <<10, 98>>
    /\ Path_C \in DOMAIN files /\ files[Path_C] = Line_importB \o <<10, 99>>
    /\ globalIncludedFiles = <<Path_B, Path_C>>

=============================================================================
